---------------------------- MODULE Spec2Model ----------------------------
(***************************************************************************)
(* Model of the progressive benchmark client of parser-compare:            *)
(*   - the run history store (src/src/lib/history.ts),                     *)
(*   - the status route's getFileStatus (src/src/pages/HomePage.tsx, the   *)
(*     benchmark module that file also holds),                             *)
(*   - the run detail view and its progressive poller                      *)
(*     (src/src/pages/RunDetailPage.tsx, second component of the file),    *)
(*   - the application shell that mounts the view (src/src/App.tsx).       *)
(*                                                                         *)
(* Time is a discrete clock.  One tick is longer than a poll interval, so  *)
(* a timer may fire, and a request may be answered, without the clock      *)
(* moving.  The poll deadline MAX_POLL_TIME_MS is counted in ticks.        *)
(***************************************************************************)
EXTENDS Integers, Sequences, FiniteSets, Bags, TLC

VARIABLES
    history,            \* localStorage[STORAGE_KEY]: sequence of HistoryEntry
    remote,             \* the hosted service: fileId -> status of the file
    now,                \* Date.now()
    page,               \* the route: "home" or "detail"
    runId,              \* the runId prop of the mounted RunDetailPage
    healthStatus,       \* App's health state: "loading" until the fetch answers
    run,                \* RunDetailPage state `run`: <<>> (null) or <<entry>>
    methodStatuses,     \* RunDetailPage state `methodStatuses`
    passages,           \* RunDetailPage state `passages`: methods with a cached list
    pollTimersRef,      \* pollTimersRef.current: methods holding a timer id
    pollStartTimesRef,  \* pollStartTimesRef.current: method -> time (0: unset)
    dirty,              \* a dependency of the poll effect changed: it will re-run
    loops,              \* bag of poll cycles in progress (request or timer)
    passFetch,          \* bag of passage requests in flight
    timeoutWrites,      \* history of the store: timeout updates per method record
    server,             \* the server's runBenchmark call and its benchmarkMethod calls
    lastOp,             \* the last operation on the history store, with its return
    aiView,             \* RunDetailPage's AI Compare state: dialog, running, result, error
    aiRequests          \* bag of ai-compare requests sent and not yet handled by the page

vars == <<history, remote, now, page, runId, healthStatus, run, methodStatuses,
          passages, pollTimersRef, pollStartTimesRef, dirty, loops, passFetch,
          timeoutWrites, server, lastOp, aiView, aiRequests>>

---------------------------------------------------------------------------
(* Bounds of the model *)

\* the clock stops here
MaxTime == 3
\* poll cycles (requests and timers) that may be outstanding at once
MaxLoops == 2
\* passage requests that may be in flight at once
MaxPassFetch == 1
\* timeoutWrites counts up to here
MaxWrites == 2
\* methods of a run in progressive mode (a prefix of METHODS)
NumMethods == 2

---------------------------------------------------------------------------
(* Program constants *)

MAX_HISTORY_ITEMS == 25
\* 5 * 60 * 1000 ms in the source; here in clock ticks
MAX_POLL_TIME_MS == 1

METHODS == <<"basic", "vision", "landing-ai">>

PendingStatuses == {"upload_pending", "indexing_pending"}
TerminalStatuses == {"indexing_completed", "indexing_failed", "upload_failed", "timeout"}

\* JavaScript's undefined, for a string field and for a number field
UndefStr == "undefined"
UndefNum == 0 - 1

TimeoutReason == "Indexing timed out after 5 minutes"

---------------------------------------------------------------------------
(* Helpers standing for JavaScript built-ins *)

\* history.findIndex((h) => h.runId === rid), 1-based; 0 where JavaScript answers -1
IndexOfRun(h, rid) ==
    IF \E i \in 1..Len(h) : h[i].runId = rid
    THEN CHOOSE i \in 1..Len(h) :
             h[i].runId = rid /\ \A j \in 1..(i-1) : h[j].runId # rid
    ELSE 0

\* methods.findIndex((m) => m.method === name), 1-based; 0 where JavaScript answers -1
IndexOfMethod(ms, name) ==
    IF \E i \in 1..Len(ms) : ms[i].method = name
    THEN CHOOSE i \in 1..Len(ms) :
             ms[i].method = name /\ \A j \in 1..(i-1) : ms[j].method # name
    ELSE 0

WithoutRunKeep(h, rid) == h

\* history.filter((h) => h.runId !== rid)
WithoutRun(h, rid) == SelectSeq(h, LAMBDA e : e.runId # rid)

Slice0NoCap(s, n) == s

\* Array.prototype.slice(0, n)
Slice0(s, n) == SubSeq(s, 1, IF Len(s) < n THEN Len(s) ELSE n)

\* { ...old, ...update }: the fields of update overwrite, the others are kept
Spread(old, update) ==
    [f \in (DOMAIN old) \cup (DOMAIN update) |->
        IF f \in DOMAIN update THEN update[f] ELSE old[f]]

---------------------------------------------------------------------------
(* The run history store *)

\* getRunById: <<>> for null
getRunById(h, rid) ==
    LET i == IndexOfRun(h, rid)
    IN  IF i = 0 THEN <<>> ELSE <<h[i]>>

\* createPendingEntry: entry is a PendingHistoryEntry
createPendingEntry(h, entry) ==
    LET historyEntry ==
            [runId |-> entry.runId,
             startedAt |-> entry.startedAt,
             completedAt |-> 0,
             methods |-> [i \in 1..Len(entry.methods) |->
                 [method |-> entry.methods[i].method,
                  fileId |-> entry.methods[i].fileId,
                  status |-> entry.methods[i].status,
                  failedReason |-> UndefStr,
                  passageCount |-> 0,
                  contentCharsTotal |-> 0,
                  pageCount |-> 0,
                  startedAt |-> entry.methods[i].startedAt]],
             originalFile |-> entry.originalFile,
             aiComparison |-> FALSE]
        filtered == WithoutRun(h, entry.runId)
    IN  Slice0(<<historyEntry>> \o filtered, MAX_HISTORY_ITEMS)

\* updateMethodInHistory with `some` in place of `every` at line 139: completedAt is
\* stamped as soon as one method is terminal
updateMethodInHistorySome(h, rid, methodName, update, stamp) ==
    LET index == IndexOfRun(h, rid)
    IN  IF index = 0 THEN h
        ELSE
        LET methodIndex == IndexOfMethod(h[index].methods, methodName)
        IN  IF methodIndex = 0 THEN h
            ELSE
            LET methods1 == [h[index].methods EXCEPT
                                ![methodIndex] = Spread(@, update)]
                allComplete == \E i \in 1..Len(methods1) :
                                   methods1[i].status \in TerminalStatuses
                completedAt1 == IF allComplete /\ h[index].completedAt = 0
                                THEN stamp ELSE h[index].completedAt
            IN  [h EXCEPT ![index] = [@ EXCEPT !.methods = methods1,
                                               !.completedAt = completedAt1]]

updateMethodInHistoryRestamp(h, rid, methodName, update, stamp) ==
    LET index == IndexOfRun(h, rid)
    IN  IF index = 0 THEN h
        ELSE
        LET methodIndex == IndexOfMethod(h[index].methods, methodName)
        IN  IF methodIndex = 0 THEN h
            ELSE
            LET methods1 == [h[index].methods EXCEPT
                                ![methodIndex] = Spread(@, update)]
                allComplete == \A i \in 1..Len(methods1) :
                                   methods1[i].status \in TerminalStatuses
                completedAt1 == IF allComplete THEN stamp ELSE h[index].completedAt
            IN  [h EXCEPT ![index] = [@ EXCEPT !.methods = methods1,
                                               !.completedAt = completedAt1]]

\* an update that stores the updated run at the front, as addToHistory does
updateMethodInHistoryToFront(h, rid, methodName, update, stamp) ==
    LET index == IndexOfRun(h, rid)
    IN  IF index = 0 THEN h
        ELSE
        LET methodIndex == IndexOfMethod(h[index].methods, methodName)
        IN  IF methodIndex = 0 THEN h
            ELSE
            LET methods1 == [h[index].methods EXCEPT
                                ![methodIndex] = Spread(@, update)]
                allComplete == \A i \in 1..Len(methods1) :
                                   methods1[i].status \in TerminalStatuses
                completedAt1 == IF allComplete /\ h[index].completedAt = 0
                                THEN stamp ELSE h[index].completedAt
            IN  <<[h[index] EXCEPT !.methods = methods1, !.completedAt = completedAt1]>>
                    \o SubSeq(h, 1, index - 1) \o SubSeq(h, index + 1, Len(h))

\* updateMethodInHistory; stamp is new Date().toISOString() (0 is the empty string)
updateMethodInHistory(h, rid, methodName, update, stamp) ==
    LET index == IndexOfRun(h, rid)
    IN  IF index = 0 THEN h
        ELSE
        LET methodIndex == IndexOfMethod(h[index].methods, methodName)
        IN  IF methodIndex = 0 THEN h
            ELSE
            LET methods1 == [h[index].methods EXCEPT
                                ![methodIndex] = Spread(@, update)]
                allComplete == \A i \in 1..Len(methods1) :
                                   methods1[i].status \in TerminalStatuses
                completedAt1 == IF allComplete /\ h[index].completedAt = 0
                                THEN stamp ELSE h[index].completedAt
            IN  [h EXCEPT ![index] = [@ EXCEPT !.methods = methods1,
                                               !.completedAt = completedAt1]]

---------------------------------------------------------------------------
(* The status route *)

\* the page size the client and the routes ask the service for
PASSAGES_LIMIT == 200

\* the number of passages the service holds for an indexed file: files with an odd
\* id have one passage more than a page, the others two passages
PassageTotal(fid) == IF fid % 2 = 1 THEN PASSAGES_LIMIT + 1 ELSE 2

\* client.listFilePassages: a page of at most limit passages after the position
\* nextToken (undefined: from the start), and the token of the next page if there
\* is one; a passage is modelled by its position in the file
listFilePassages(fid, limit, nextToken) ==
    LET start == IF nextToken = UndefNum THEN 0 ELSE nextToken
        end == IF start + limit < PassageTotal(fid) THEN start + limit
               ELSE PassageTotal(fid)
    IN  [passages |-> [i \in 1..(end - start) |-> start + i],
         nextToken |-> IF end < PassageTotal(fid) THEN end ELSE UndefNum]

\* getFilePassages: one page of the service, the token handed on
getFilePassages(fid, limit, nextToken) ==
    LET result == listFilePassages(fid, limit, nextToken)
    IN  [passages |-> [i \in 1..Len(result.passages) |-> result.passages[i]],
         nextToken |-> result.nextToken]

\* getAllPassages: the do-while over the pages, from the page at nextToken on
RECURSIVE getAllPassagesFrom(_, _, _)
getAllPassagesFrom(fid, limit, nextToken) ==
    LET result == listFilePassages(fid, limit, nextToken)
    IN  IF result.nextToken # UndefNum
        THEN result.passages \o getAllPassagesFrom(fid, limit, result.nextToken)
        ELSE result.passages

getAllPassages(fid, limit) == getAllPassagesFrom(fid, limit, UndefNum)

\* passages of an indexed file, as getAllPassages returns them
RemotePassageCount(fid) == PassageTotal(fid)

\* a response that passes the service's reason on as it is
getFileStatusNoFallback(fid, fileData) ==
    LET status == fileData.status
    IN  [status |-> status,
         failedReason |-> IF status \in {"indexing_failed", "upload_failed"}
                          THEN fileData.failedStatusReason
                          ELSE UndefStr,
         passageCount |-> IF status = "indexing_completed"
                          THEN RemotePassageCount(fid) ELSE UndefNum,
         contentCharsTotal |-> IF status = "indexing_completed"
                               THEN RemotePassageCount(fid) ELSE UndefNum,
         pageCount |-> IF status = "indexing_completed" THEN 1 ELSE UndefNum]

\* getFileStatus after client.getFile returned fileData: the FileStatusResponse
getFileStatusOf(fid, fileData) ==
    LET status == fileData.status
    IN  [status |-> status,
         failedReason |-> IF status \in {"indexing_failed", "upload_failed"}
                          THEN IF fileData.failedStatusReason \in {UndefStr, ""}
                               THEN "Unknown error"
                               ELSE fileData.failedStatusReason
                          ELSE UndefStr,
         passageCount |-> IF status = "indexing_completed"
                          THEN RemotePassageCount(fid) ELSE UndefNum,
         contentCharsTotal |-> IF status = "indexing_completed"
                               THEN RemotePassageCount(fid) ELSE UndefNum,
         pageCount |-> IF status = "indexing_completed" THEN 1 ELSE UndefNum]

\* getFileStatus: the FileStatusResponse for a file whose remote status is st, the
\* service giving a reason with it
getFileStatus(fid, st) ==
    getFileStatusOf(fid, [status |-> st, failedStatusReason |-> "remote reason"])

---------------------------------------------------------------------------
(* The hosted service *)

\* the methods a progressive run starts, in METHODS order
RunMethods == SubSeq(METHODS, 1, NumMethods)
Methods == {RunMethods[i] : i \in 1..NumMethods}

\* the file the service registered for method i of run r (0 stands for '')
FileIdOf(r, i) == (r - 1) * NumMethods + i

\* statuses the service may move a file to
RemoteNext(st) ==
    CASE st = "upload_pending" -> {"indexing_pending", "upload_failed"}
      [] st = "indexing_pending" -> {"indexing_completed", "indexing_failed"}
      [] OTHER -> {}

---------------------------------------------------------------------------
(* Bags of poll cycles *)

AddTo(b, x) == b (+) SetToBag({x})
RemoveFrom(b, x) == b (-) SetToBag({x})

\* the view that started the cycle is gone: its refs and state setters reach nothing
Orphan(l) == [l EXCEPT !.live = FALSE, !.tracked = FALSE]
OrphanAll(b) == BagOfAll(Orphan, b)

\* clearTimeout on every id pollTimersRef holds
ClearTimers(b) ==
    LET keep == {l \in BagToSet(b) : ~(l.live /\ l.phase = "timer" /\ l.tracked)}
    IN  [l \in keep |-> b[l]]

\* pollTimersRef.current[m] = <new id>: the id it held before is no longer held
Untrack(b, m) ==
    LET U(l) == IF l.live /\ l.phase = "timer" /\ l.m = m
                THEN [l EXCEPT !.tracked = FALSE] ELSE l
    IN  BagOfAll(U, b)


---------------------------------------------------------------------------
(* The run detail view (RunDetailPage) and the store it writes, as one     *)
(* record c, so that a handler is a function from c to c.                  *)

Client ==
    [history |-> history, run |-> run, methodStatuses |-> methodStatuses,
     passages |-> passages, pollTimersRef |-> pollTimersRef,
     pollStartTimesRef |-> pollStartTimesRef, dirty |-> dirty, loops |-> loops,
     passFetch |-> passFetch, timeoutWrites |-> timeoutWrites]

Commit(c) ==
    /\ history' = c.history
    /\ run' = c.run
    /\ methodStatuses' = c.methodStatuses
    /\ passages' = c.passages
    /\ pollTimersRef' = c.pollTimersRef
    /\ pollStartTimesRef' = c.pollStartTimesRef
    /\ dirty' = c.dirty
    /\ loops' = c.loops
    /\ passFetch' = c.passFetch
    /\ timeoutWrites' = c.timeoutWrites

\* setMethodStatuses((prev) => ({ ...prev, [m]: st })); nothing on a view that is gone
SetMethodStatus(c, live, m, st) ==
    IF live THEN [c EXCEPT !.methodStatuses = (m :> st) @@ @] ELSE c

\* onHistoryChange(): App.refreshHistory sets App state, App renders again and hands
\* the mounted view a new onHistoryChange, hence a new pollMethodStatus
OnHistoryChange(c) == [c EXCEPT !.dirty = @ \/ (page = "detail")]

\* the update pollMethodStatus writes at the deadline
TimeoutUpdate == [status |-> "timeout", failedReason |-> TimeoutReason]

\* the update pollMethodStatus writes for a finished method
FinishedUpdate(status) ==
    [status |-> status.status,
     failedReason |-> status.failedReason,
     passageCount |-> status.passageCount,
     contentCharsTotal |-> status.contentCharsTotal,
     pageCount |-> status.pageCount]

\* an update built on the entry the view holds in `run` instead of the stored one
StoreUpdateFromRun(c, rid, m, update) ==
    LET i == IndexOfRun(c.history, rid)
        hit == i # 0 /\ IndexOfMethod(c.history[i].methods, m) # 0
        n == IF <<rid, m>> \in DOMAIN c.timeoutWrites
             THEN c.timeoutWrites[<<rid, m>>] ELSE 0
        n1 == IF n < MaxWrites THEN n + 1 ELSE n
        held == IF i # 0 /\ c.run # <<>> /\ c.run[1].runId = rid
                THEN [c.history EXCEPT ![i] = c.run[1]] ELSE c.history
    IN  [c EXCEPT
            !.history = updateMethodInHistory(held, rid, m, update, now),
            !.timeoutWrites = IF hit /\ update.status = "timeout"
                              THEN (<<rid, m>> :> n1) @@ @ ELSE @]

\* the call updateMethodInHistory(rid, m, update) on the store
StoreUpdate(c, rid, m, update) ==
    LET i == IndexOfRun(c.history, rid)
        hit == i # 0 /\ IndexOfMethod(c.history[i].methods, m) # 0
        n == IF <<rid, m>> \in DOMAIN c.timeoutWrites
             THEN c.timeoutWrites[<<rid, m>>] ELSE 0
        n1 == IF n < MaxWrites THEN n + 1 ELSE n
    IN  [c EXCEPT
            !.history = updateMethodInHistory(@, rid, m, update, now),
            !.timeoutWrites = IF hit /\ update.status = "timeout"
                              THEN (<<rid, m>> :> n1) @@ @ ELSE @]

NewCycle(m, fid, rid, start, live) ==
    [m |-> m, fid |-> fid, rid |-> rid, start |-> start, live |-> live,
     phase |-> "request", resp |-> "none", tracked |-> FALSE]

\* pollMethodStatus up to its first await: the deadline check, then the request
pollMethodStatus(c, m, fid, rid, live, start) ==
    IF fid = 0 THEN c
    ELSE
    LET pollStart == IF start # 0 THEN start ELSE now
    IN  IF now - pollStart > MAX_POLL_TIME_MS
        THEN OnHistoryChange(
                 StoreUpdate(SetMethodStatus(c, live, m, "timeout"),
                             rid, m, TimeoutUpdate))
        ELSE [c EXCEPT !.loops = AddTo(@, NewCycle(m, fid, rid, start, live))]

\* fetchPassagesForMethod up to its await
fetchPassagesForMethod(c, fid, m, live) ==
    [c EXCEPT !.passFetch = AddTo(@, [m |-> m, fid |-> fid, live |-> live])]

\* the poll effect's loop over run.methods, with the runId its pollMethodStatus closes over
RECURSIVE EffectBody(_, _, _)
EffectBodyAwaitsPending(c, ms, rid) ==
    IF ms = <<>> THEN c
    ELSE
    LET method == Head(ms)
        isPending == method.status \in PendingStatuses
        c1 == IF c.pollStartTimesRef[method.method] = 0
              THEN [c EXCEPT !.pollStartTimesRef[method.method] = now]
              ELSE c
        c2 == IF isPending /\ method.fileId # 0
              THEN IF method.method \notin c1.pollTimersRef
                   THEN pollMethodStatus(c1, method.method, method.fileId, rid, TRUE,
                                         c1.pollStartTimesRef[method.method])
                   ELSE c1
              ELSE IF /\ method.status = "indexing_completed"
                      /\ method.fileId # 0
                      /\ method.method \notin c.passages
                   THEN fetchPassagesForMethod(c, method.fileId, method.method, TRUE)
                   ELSE c
    IN  IF isPending THEN c2 ELSE EffectBody(c2, Tail(ms), rid)

EffectBody(c, ms, rid) ==
    IF ms = <<>> THEN c
    ELSE
    LET method == Head(ms)
        isPending == method.status \in PendingStatuses
        c1 == IF c.pollStartTimesRef[method.method] = 0
              THEN [c EXCEPT !.pollStartTimesRef[method.method] = now]
              ELSE c
        c2 == IF isPending /\ method.fileId # 0
              THEN IF method.method \notin c1.pollTimersRef
                   THEN pollMethodStatus(c1, method.method, method.fileId, rid, TRUE,
                                         c1.pollStartTimesRef[method.method])
                   ELSE c1
              ELSE IF /\ method.status = "indexing_completed"
                      /\ method.fileId # 0
                      /\ method.method \notin c.passages
                   THEN fetchPassagesForMethod(c, method.fileId, method.method, TRUE)
                   ELSE c
    IN  EffectBody(c2, Tail(ms), rid)

\* the cleanup without line 570: the timers are cleared, the ref keeps its keys
EffectCleanupKeepsKeys(c) ==
    [c EXCEPT !.loops = ClearTimers(@)]

\* the poll effect's cleanup
EffectCleanup(c) ==
    [c EXCEPT !.loops = ClearTimers(@), !.pollTimersRef = {}]

\* one run of the poll effect: the cleanup of its last run, then its body
PollEffectRun(c, rid) ==
    IF c.run = <<>> THEN EffectCleanup(c)
    ELSE EffectBody(EffectCleanup(c), c.run[1].methods, rid)

\* the statuses the load effect hands to setMethodStatuses
StatusesOf(r) ==
    IF r = <<>> THEN <<>>
    ELSE [m \in {r[1].methods[i].method : i \in 1..Len(r[1].methods)} |->
             LET k == CHOOSE i \in 1..Len(r[1].methods) :
                          /\ r[1].methods[i].method = m
                          /\ \A j \in (i+1)..Len(r[1].methods) : r[1].methods[j].method # m
             IN  r[1].methods[k].status]

\* a new RunDetailPage for run rid: fresh state and refs, then the load effect
MountView(c, rid) ==
    LET entry == getRunById(c.history, rid)
    IN  [c EXCEPT !.run = entry,
                  !.methodStatuses = StatusesOf(entry),
                  !.passages = {},
                  !.pollTimersRef = {},
                  !.pollStartTimesRef = [m \in Methods |-> 0],
                  !.dirty = TRUE]

\* the view is removed: the poll effect's cleanup runs, state and refs are dropped
UnmountView(c) ==
    [c EXCEPT !.loops = OrphanAll(ClearTimers(@)),
              !.passFetch = BagOfAll(LAMBDA f : [f EXCEPT !.live = FALSE], @),
              !.run = <<>>,
              !.methodStatuses = <<>>,
              !.passages = {},
              !.pollTimersRef = {},
              !.pollStartTimesRef = [m \in Methods |-> 0],
              !.dirty = FALSE]


---------------------------------------------------------------------------
(* Initial states: the history after the progressive upload of a run *)

\* what the upload hands to createPendingEntry for method i of run r: the file the
\* start route answered, not yet indexed
PendingMethodsOf(r, i) ==
    {[method |-> RunMethods[i], fileId |-> FileIdOf(r, i), status |-> st,
      startedAt |-> 1] : st \in {"upload_pending"}}

PendingEntries(r) ==
    {[runId |-> r, startedAt |-> 1, originalFile |-> "report.pdf", methods |-> ms] :
        ms \in {q \in [1..NumMethods -> UNION {PendingMethodsOf(r, i) : i \in 1..NumMethods}] :
                   \A i \in 1..NumMethods : q[i] \in PendingMethodsOf(r, i)}}

\* no benchmark request is being served
ServerIdle == [pc |-> "idle"]

\* no operation on the history store was called yet
NoOp == [op |-> "none"]

\* the AI Compare state of a RunDetailPage that was just mounted on an entry
AiViewOf(entry) ==
    [showAiCompareDialog |-> FALSE,
     isRunningAiCompare |-> FALSE,
     aiComparison |-> IF entry = <<>> THEN FALSE ELSE entry[1].aiComparison,
     error |-> UndefStr]

InitPage ==
    /\ now = 1
    /\ page = "home"
    /\ runId = 0
    /\ healthStatus = "loading"
    /\ run = <<>>
    /\ methodStatuses = <<>>
    /\ passages = {}
    /\ pollTimersRef = {}
    /\ pollStartTimesRef = [m \in Methods |-> 0]
    /\ dirty = FALSE
    /\ loops = EmptyBag
    /\ passFetch = EmptyBag
    /\ timeoutWrites = <<>>
    /\ aiView = AiViewOf(<<>>)
    /\ aiRequests = EmptyBag

\* no page is open, the server is idle and the history store was not called
InitView ==
    /\ InitPage
    /\ server = ServerIdle
    /\ lastOp = NoOp

Init ==
    /\ \E e \in PendingEntries(1) : history = createPendingEntry(<<>>, e)
    /\ remote = [f \in {FileIdOf(1, i) : i \in 1..NumMethods} |-> "upload_pending"]
    /\ InitView

---------------------------------------------------------------------------
(* Actions *)

\* the clock
Tick ==
    /\ now < MaxTime
    /\ now' = now + 1
    /\ UNCHANGED <<aiView, aiRequests, server, lastOp, history, remote, page, runId, healthStatus, run, methodStatuses,
                   passages, pollTimersRef, pollStartTimesRef, dirty, loops,
                   passFetch, timeoutWrites>>

\* the hosted service moves a file on
RemoteProgress ==
    \E f \in DOMAIN remote : \E st \in RemoteNext(remote[f]) :
        /\ remote' = [remote EXCEPT ![f] = st]
        /\ UNCHANGED <<aiView, aiRequests, server, lastOp, history, now, page, runId, healthStatus, run, methodStatuses,
                       passages, pollTimersRef, pollStartTimesRef, dirty, loops,
                       passFetch, timeoutWrites>>

\* navigate('/runs/<r>') from the home page: App renders a RunDetailPage
OpenRun ==
    \E i \in 1..Len(history) :
        /\ page = "home"
        /\ page' = "detail"
        /\ runId' = history[i].runId
        /\ Commit(MountView(Client, history[i].runId))
        /\ UNCHANGED <<aiView, aiRequests, server, lastOp, remote, now, healthStatus>>

\* navigate('/'): App renders the home page, the RunDetailPage is removed
Back ==
    /\ page = "detail"
    /\ page' = "home"
    /\ runId' = 0
    /\ Commit(UnmountView(Client))
    /\ UNCHANGED <<aiView, aiRequests, server, lastOp, remote, now, healthStatus>>

\* the page is loaded again: timers and requests of the old document are gone,
\* the route is kept
Reload ==
    /\ healthStatus' = "loading"
    /\ LET c0 == [UnmountView(Client) EXCEPT !.loops = EmptyBag, !.passFetch = EmptyBag]
       IN  Commit(IF page = "detail" THEN MountView(c0, runId) ELSE c0)
    /\ UNCHANGED <<aiView, aiRequests, server, lastOp, remote, now, page, runId>>

\* App's health request is answered: setHealthStatus, App renders again
HealthResponse ==
    /\ healthStatus = "loading"
    /\ healthStatus' = "configured"
    /\ dirty' = (dirty \/ page = "detail")
    /\ UNCHANGED <<aiView, aiRequests, server, lastOp, history, remote, now, page, runId, run, methodStatuses, passages,
                   pollTimersRef, pollStartTimesRef, loops, passFetch, timeoutWrites>>

\* the poll effect runs again after a render that changed one of its dependencies
PollEffect ==
    /\ page = "detail"
    /\ dirty
    /\ LET c == PollEffectRun([Client EXCEPT !.dirty = FALSE], runId)
       IN  /\ BagCardinality(c.loops) <= MaxLoops
           /\ BagCardinality(c.passFetch) <= MaxPassFetch
           /\ Commit(c)
    /\ UNCHANGED <<aiView, aiRequests, server, lastOp, remote, now, page, runId, healthStatus>>

\* the status route answers a request: getFileStatus reads the file
ServerStatus ==
    \E l \in BagToSet(loops) :
        /\ l.phase = "request"
        /\ l.resp = "none"
        /\ loops' = AddTo(RemoveFrom(loops, l), [l EXCEPT !.resp = remote[l.fid]])
        /\ UNCHANGED <<aiView, aiRequests, server, lastOp, history, remote, now, page, runId, healthStatus, run,
                       methodStatuses, passages, pollTimersRef, pollStartTimesRef,
                       dirty, passFetch, timeoutWrites>>

\* pollMethodStatus after `await fetch(url)` with res.ok
PollResponseOf(l) ==
    /\ l.phase = "request"
    /\ l.resp # "none"
    /\ LET status == getFileStatus(l.fid, l.resp)
           c0 == [Client EXCEPT !.loops = RemoveFrom(@, l)]
           c1 == SetMethodStatus(c0, l.live, l.m, status.status)
           \* still processing: schedule the next poll
           cT == [c1 EXCEPT
                    !.loops = AddTo(IF l.live THEN Untrack(@, l.m) ELSE @,
                                    [l EXCEPT !.phase = "timer", !.resp = "none",
                                              !.tracked = l.live]),
                    !.pollTimersRef = IF l.live THEN @ \cup {l.m} ELSE @]
           \* finished: update history, refresh run, report, fetch passages
           c2 == StoreUpdate(c1, l.rid, l.m, FinishedUpdate(status))
           updatedRun == getRunById(c2.history, l.rid)
           c3 == IF updatedRun # <<>> /\ l.live
                 THEN [c2 EXCEPT !.run = updatedRun,
                                 !.dirty = @ \/ (updatedRun # c2.run)]
                 ELSE c2
           c4 == OnHistoryChange(c3)
           c5 == IF status.status = "indexing_completed"
                 THEN fetchPassagesForMethod(c4, l.fid, l.m, l.live)
                 ELSE c4
           c == IF status.status \in PendingStatuses THEN cT ELSE c5
       IN  /\ BagCardinality(c.passFetch) <= MaxPassFetch
           /\ Commit(c)
    /\ UNCHANGED <<aiView, aiRequests, server, lastOp, remote, now, page, runId, healthStatus>>

PollResponse == \E l \in BagToSet(loops) : PollResponseOf(l)

\* pollMethodStatus after a response that is not ok, or a request that throws
PollError ==
    \E l \in BagToSet(loops) :
        /\ l.phase = "request"
        /\ loops' = RemoveFrom(loops, l)
        /\ UNCHANGED <<aiView, aiRequests, server, lastOp, history, remote, now, page, runId, healthStatus, run,
                       methodStatuses, passages, pollTimersRef, pollStartTimesRef,
                       dirty, passFetch, timeoutWrites>>

\* a poll timer fires: pollMethodStatus(method) again
TimerFireOf(l) ==
    /\ l.phase = "timer"
    /\ Commit(pollMethodStatus([Client EXCEPT !.loops = RemoveFrom(@, l)],
                               l.m, l.fid, l.rid, l.live,
                               IF l.live THEN pollStartTimesRef[l.m] ELSE l.start))
    /\ UNCHANGED <<aiView, aiRequests, server, lastOp, remote, now, page, runId, healthStatus>>

TimerFire == \E l \in BagToSet(loops) : TimerFireOf(l)

\* fetchPassagesForMethod after its await: setPassages when res.ok
PassagesResponse ==
    \E f \in BagToSet(passFetch) : \E ok \in BOOLEAN :
        /\ passFetch' = RemoveFrom(passFetch, f)
        /\ passages' = IF ok /\ f.live THEN passages \cup {f.m} ELSE passages
        /\ dirty' = (dirty \/ (ok /\ f.live))
        /\ UNCHANGED <<aiView, aiRequests, server, lastOp, history, remote, now, page, runId, healthStatus, run,
                       methodStatuses, pollTimersRef, pollStartTimesRef, loops,
                       timeoutWrites>>

Next ==
    \/ Tick
    \/ RemoteProgress
    \/ OpenRun
    \/ Back
    \/ Reload
    \/ HealthResponse
    \/ PollEffect
    \/ ServerStatus
    \/ PollResponse
    \/ PollError
    \/ TimerFire
    \/ PassagesResponse

Spec == Init /\ [][Next]_vars

---------------------------------------------------------------------------
(* Two runs in the history and navigation between their pages *)

NumRuns == 2

\* the route changes from one run's page to another's in one update (a popstate that
\* lands on another /runs/<id>): App renders the same RunDetailPage with a new runId.
\* The load effect reads the new run and queues setRun; the poll effect, whose
\* pollMethodStatus closes over the new runId, runs in the same pass over the `run`
\* of the render, which is still the old one; the refs are kept. Taken when the
\* view has no render pending
SwitchRun ==
    \E i \in 1..Len(history) :
        /\ page = "detail"
        /\ ~dirty
        /\ history[i].runId # runId
        /\ runId' = history[i].runId
        /\ LET entry == getRunById(history, history[i].runId)
               c0 == [Client EXCEPT !.methodStatuses = StatusesOf(entry),
                                    !.dirty = FALSE]
               c1 == PollEffectRun(c0, history[i].runId)
               c2 == [c1 EXCEPT !.run = entry, !.dirty = TRUE]
           IN  /\ BagCardinality(c2.loops) <= MaxLoops
               /\ BagCardinality(c2.passFetch) <= MaxPassFetch
               /\ Commit(c2)
        /\ UNCHANGED <<aiView, aiRequests, server, lastOp, remote, now, page, healthStatus>>

RECURSIVE CreateRuns(_, _)
CreateRuns(h, r) ==
    IF r > NumRuns THEN {h}
    ELSE UNION {CreateRuns(createPendingEntry(h, e), r + 1) : e \in PendingEntries(r)}

InitNav ==
    /\ history \in CreateRuns(<<>>, 1)
    /\ remote = [f \in {FileIdOf(r, i) : r \in 1..NumRuns, i \in 1..NumMethods}
                   |-> IF f \in {FileIdOf(NumRuns, i) : i \in 1..NumMethods}
                       THEN "upload_pending" ELSE "indexing_pending"]
    /\ InitView

NextNav ==
    \/ RemoteProgress
    \/ OpenRun
    \/ SwitchRun
    \/ PollEffect
    \/ ServerStatus
    \/ PollResponse

SpecNav == InitNav /\ [][NextNav]_vars

---------------------------------------------------------------------------
(* The synchronous benchmark: runBenchmark and benchmarkMethod on the server,
   and the client that stores the returned run *)

MAX_POLL_ATTEMPTS == 150

UnknownError == "Unknown error"

\* the statuses a later getFile can report for a file last seen with status st
LaterStatuses(st) ==
    {st} \cup RemoteNext(st) \cup UNION {RemoteNext(t) : t \in RemoteNext(st)}

\* the remote calls of a method run that can fail, with the text of the error
RemoteErrors ==
    [upsertFile |-> "upsertFile failed",
     uploadUrl |-> "No uploadUrl returned from upsertFile",
     upload |-> "fetch failed",
     getFile |-> "getFile failed",
     listFilePassages |-> "listFilePassages failed"]

\* a MethodResult without metrics
EmptyResult(method, fileId, status, failedReason) ==
    [method |-> method, fileId |-> fileId, status |-> status,
     failedReason |-> failedReason, passageCount |-> 0, contentCharsTotal |-> 0,
     pageCount |-> 0, startedAt |-> UndefNum]

\* a catch block that reports a fixed text in place of the error's message
CatchResultUnknown(method, message) ==
    EmptyResult(method, 0, "indexing_failed", UnknownError)

\* benchmarkMethod's catch block
CatchResult(method, message) == EmptyResult(method, 0, "indexing_failed", message)

\* a return after the poll loop that reports the last status without the timeout check
AfterPollResultNoTimeout(method, fileId, finalFile, attempts) ==
    EmptyResult(method, fileId, finalFile, "remote reason")

\* benchmarkMethod after its poll loop, for a file that is not indexing_completed:
\* the timeout check, then the failure check
AfterPollResult(method, fileId, finalFile, attempts) ==
    IF attempts >= MAX_POLL_ATTEMPTS
    THEN EmptyResult(method, fileId, "timeout", TimeoutReason)
    ELSE EmptyResult(method, fileId, finalFile, "remote reason")

\* benchmarkMethod's result for a completed file
CompletedResult(method, fileId) ==
    [EmptyResult(method, fileId, "indexing_completed", UndefStr) EXCEPT
        !.passageCount = RemotePassageCount(fileId),
        !.contentCharsTotal = RemotePassageCount(fileId),
        !.pageCount = 1]

\* a benchmarkMethod call that was not made yet
NewCall == [pc |-> "new", fileId |-> 0, finalFile |-> "none", attempts |-> 0,
            error |-> "none"]

\* a benchmarkMethod call that returned
Returned(result, error) ==
    [pc |-> "returned", fileId |-> 0, finalFile |-> "none", attempts |-> 0,
     error |-> error, result |-> result]

\* the call throws inside its try block
Throw(i, message) == Returned(CatchResult(METHODS[i], message), message)

\* a loop that calls benchmarkMethod for every method without awaiting the one before
CanStartAny(i) == server.calls[i].pc = "new"

\* runBenchmark's loop reached method i and has not called benchmarkMethod for it
CanStart(i) == server.i = i /\ server.calls[i].pc = "new"

\* a push that leaves out the results of methods that threw
PushUnlessThrown(results, result) ==
    IF result.fileId = 0 THEN results ELSE Append(results, result)

\* results.push(result)
Push(results, result) == Append(results, result)

\* addToHistory
addToHistory(h, result) ==
    LET entry == result
        filtered == WithoutRun(h, entry.runId)
    IN  Slice0(<<entry>> \o filtered, MAX_HISTORY_ITEMS)

\* POST /api/botpress/benchmark: runBenchmark starts
StartBenchmark ==
    /\ server.pc = "idle"
    /\ server' = [pc |-> "running", i |-> 1, results |-> <<>>,
                  calls |-> [i \in 1..Len(METHODS) |-> NewCall]]
    /\ UNCHANGED <<aiView, aiRequests, history, remote, now, page, runId, healthStatus, run,
                   methodStatuses, passages, pollTimersRef, pollStartTimesRef,
                   dirty, loops, passFetch, timeoutWrites, lastOp>>

\* server changes the state of call i only
CallStep(i, call) ==
    /\ server' = [server EXCEPT !.calls[i] = call]
    /\ UNCHANGED <<aiView, aiRequests, history, remote, now, page, runId, healthStatus, run,
                   methodStatuses, passages, pollTimersRef, pollStartTimesRef,
                   dirty, loops, passFetch, timeoutWrites, lastOp>>

\* benchmarkMethod is called for method i: client.upsertFile is sent
CallBenchmarkMethod ==
    \E i \in 1..Len(METHODS) :
        /\ server.pc = "running"
        /\ CanStart(i)
        /\ CallStep(i, [server.calls[i] EXCEPT !.pc = "upsertFile"])

\* upsertFile returns a file with an upload URL, or without one, or throws
UpsertFileReturns ==
    \E i \in 1..Len(METHODS) : \E outcome \in {"file", "uploadUrl", "upsertFile"} :
        /\ server.pc = "running"
        /\ server.calls[i].pc = "upsertFile"
        /\ CallStep(i, IF outcome = "file"
                       THEN [server.calls[i] EXCEPT !.pc = "upload",
                                                    !.fileId = FileIdOf(1, i),
                                                    !.finalFile = "upload_pending"]
                       ELSE Throw(i, RemoteErrors[outcome]))

\* the PUT of the file bytes returns or throws
UploadReturns ==
    \E i \in 1..Len(METHODS) : \E ok \in BOOLEAN :
        /\ server.pc = "running"
        /\ server.calls[i].pc = "upload"
        /\ CallStep(i, IF ok THEN [server.calls[i] EXCEPT !.pc = "poll"]
                       ELSE Throw(i, RemoteErrors.upload))

\* one turn of the poll loop: sleep, getFile, attempts++
StatusCheck ==
    \E i \in 1..Len(METHODS) :
        /\ server.pc = "running"
        /\ server.calls[i].pc = "poll"
        /\ server.calls[i].finalFile \in PendingStatuses
        /\ server.calls[i].attempts < MAX_POLL_ATTEMPTS
        /\ \/ \E st \in LaterStatuses(server.calls[i].finalFile) :
                 CallStep(i, [server.calls[i] EXCEPT !.finalFile = st,
                                                     !.attempts = @ + 1])
           \/ CallStep(i, Throw(i, RemoteErrors.getFile))

\* the poll loop ended: timeout, failure, or on to the passages
AfterPoll ==
    \E i \in 1..Len(METHODS) :
        LET call == server.calls[i]
        IN  /\ server.pc = "running"
            /\ call.pc = "poll"
            /\ ~(call.finalFile \in PendingStatuses /\ call.attempts < MAX_POLL_ATTEMPTS)
            /\ CallStep(i,
                 IF \/ call.attempts >= MAX_POLL_ATTEMPTS
                    \/ call.finalFile \in {"indexing_failed", "upload_failed"}
                 THEN Returned(AfterPollResult(METHODS[i], call.fileId,
                                               call.finalFile, call.attempts), "none")
                 ELSE [call EXCEPT !.pc = "passages"])

\* getAllPassages returns or throws
PassagesReturn ==
    \E i \in 1..Len(METHODS) : \E ok \in BOOLEAN :
        /\ server.pc = "running"
        /\ server.calls[i].pc = "passages"
        /\ CallStep(i, IF ok
                       THEN Returned(CompletedResult(METHODS[i], server.calls[i].fileId),
                                     "none")
                       ELSE Throw(i, RemoteErrors.listFilePassages))

\* runBenchmark's await returns: the result is pushed, the loop moves on, and after
\* the last method the run is returned
AwaitReturns ==
    /\ server.pc = "running"
    /\ server.i \in 1..Len(METHODS)
    /\ server.calls[server.i].pc = "returned"
    /\ server' = [server EXCEPT
                    !.results = Push(@, server.calls[server.i].result),
                    !.i = @ + 1,
                    !.pc = IF server.i = Len(METHODS) THEN "done" ELSE "running"]
    /\ UNCHANGED <<aiView, aiRequests, history, remote, now, page, runId, healthStatus, run,
                   methodStatuses, passages, pollTimersRef, pollStartTimesRef,
                   dirty, loops, passFetch, timeoutWrites, lastOp>>

\* the run runBenchmark returns
RunResult ==
    [runId |-> 1, startedAt |-> now, completedAt |-> now,
     originalFile |-> "report.pdf", methods |-> server.results,
     aiComparison |-> FALSE]

\* the home page receives the run: addToHistory(result)
StoreResult ==
    /\ server.pc = "done"
    /\ history' = addToHistory(history, RunResult)
    /\ server' = [server EXCEPT !.pc = "stored"]
    /\ lastOp' = [op |-> "addToHistory", runId |-> RunResult.runId, ret |-> TRUE]
    /\ UNCHANGED <<aiView, aiRequests, remote, now, page, runId, healthStatus, run, methodStatuses,
                   passages, pollTimersRef, pollStartTimesRef, dirty, loops,
                   passFetch, timeoutWrites>>

InitBench ==
    /\ history = <<>>
    /\ remote = <<>>
    /\ InitView

NextBench ==
    \/ StartBenchmark
    \/ CallBenchmarkMethod
    \/ UpsertFileReturns
    \/ UploadReturns
    \/ StatusCheck
    \/ AfterPoll
    \/ PassagesReturn
    \/ AwaitReturns
    \/ StoreResult

SpecBench == InitBench /\ [][NextBench]_vars

\* every remote call of the benchmark returns or throws: the step that waits for it
\* is taken
SpecBenchFair == SpecBench /\ WF_vars(NextBench)

---------------------------------------------------------------------------
(* The history store under arbitrary sequences of its operations *)

NumNewRuns == 1
MaxOps == 4

\* a finished run as runBenchmark returns it, taken at time t
SyncRun(r, t) ==
    [runId |-> r, startedAt |-> t, completedAt |-> t, originalFile |-> "report.pdf",
     methods |-> [i \in 1..NumMethods |->
                     CompletedResult(RunMethods[i], FileIdOf(r, i))],
     aiComparison |-> FALSE]

\* an update that marks every stored entry once the run is found
updateHistoryWithAiComparisonAll(h, rid) ==
    LET index == IndexOfRun(h, rid)
    IN  IF index = 0 THEN h
        ELSE [i \in 1..Len(h) |-> [h[i] EXCEPT !.aiComparison = TRUE]]

\* updateHistoryWithAiComparison
updateHistoryWithAiComparison(h, rid) ==
    LET index == IndexOfRun(h, rid)
    IN  IF index = 0 THEN h ELSE [h EXCEPT ![index].aiComparison = TRUE]

\* clearHistory
clearHistory(h) == <<>>

\* JSON.stringify of an object: a property whose value is undefined is left out
StringifyObject(obj) ==
    LET IsUndefined(g) == IF g \in {"method", "status", "failedReason"}
                          THEN obj[g] = UndefStr
                          ELSE obj[g] = UndefNum
    IN  [f \in {g \in DOMAIN obj : ~IsUndefined(g)} |-> obj[f]]

\* JSON.stringify of a history entry; aiComparison is present only when it was set
StringifyEntry(e) ==
    LET withMethods == [e EXCEPT !.methods =
                            [i \in 1..Len(e.methods) |-> StringifyObject(e.methods[i])]]
    IN  [f \in {g \in DOMAIN e : g # "aiComparison" \/ e.aiComparison} |->
            withMethods[f]]

\* JSON.stringify(history, null, 2)
JSONStringify(h) ==
    [kind |-> "array", items |-> [i \in 1..Len(h) |-> StringifyEntry(h[i])]]

\* exportHistory
exportHistory(h) == JSONStringify(h)

\* reading property f of a parsed object: undefined when the property is absent
Get(obj, f, undefined) == IF f \in DOMAIN obj THEN obj[f] ELSE undefined

\* a parsed method record as the program reads it
ParseMethod(obj) ==
    [method |-> Get(obj, "method", UndefStr),
     fileId |-> Get(obj, "fileId", 0),
     status |-> Get(obj, "status", UndefStr),
     failedReason |-> Get(obj, "failedReason", UndefStr),
     passageCount |-> Get(obj, "passageCount", UndefNum),
     contentCharsTotal |-> Get(obj, "contentCharsTotal", UndefNum),
     pageCount |-> Get(obj, "pageCount", UndefNum),
     startedAt |-> Get(obj, "startedAt", UndefNum)]

\* a parsed history entry as the program reads it (importHistory has checked
\* that methods is an array before any entry is read)
ParseEntry(obj) ==
    [runId |-> Get(obj, "runId", 0),
     startedAt |-> Get(obj, "startedAt", UndefNum),
     completedAt |-> Get(obj, "completedAt", 0),
     originalFile |-> Get(obj, "originalFile", UndefStr),
     methods |-> IF "methods" \in DOMAIN obj
                 THEN [i \in 1..Len(obj.methods) |-> ParseMethod(obj.methods[i])]
                 ELSE <<>>,
     aiComparison |-> Get(obj, "aiComparison", FALSE)]

\* the run ids of a sequence of entries
RunIdsOf(h) == {h[i].runId : i \in 1..Len(h)}

importHistoryNewOnly(h, json) ==
    IF json.kind # "array" THEN [history |-> h, ret |-> FALSE]
    ELSE
    LET parsed == json.items
    IN  IF \E i \in 1..Len(parsed) :
               \/ Get(parsed[i], "runId", 0) = 0
               \/ Get(parsed[i], "originalFile", UndefStr) = UndefStr
               \/ "methods" \notin DOMAIN parsed[i]
        THEN [history |-> h, ret |-> FALSE]
        ELSE
        LET existing == h
            existingIds == RunIdsOf(existing)
            newEntries == SelectSeq(parsed, LAMBDA e : e.runId \notin existingIds)
            merged == Slice0([i \in 1..Len(newEntries) |-> ParseEntry(newEntries[i])],
                             MAX_HISTORY_ITEMS)
        IN  [history |-> merged, ret |-> TRUE]

importHistorySkipInvalid(h, json) ==
    IF json.kind # "array" THEN [history |-> h, ret |-> FALSE]
    ELSE
    LET parsed == SelectSeq(json.items, LAMBDA e :
                      /\ Get(e, "runId", 0) # 0
                      /\ Get(e, "originalFile", UndefStr) # UndefStr
                      /\ "methods" \in DOMAIN e)
        existing == h
        existingIds == RunIdsOf(existing)
        newEntries == SelectSeq(parsed, LAMBDA e : e.runId \notin existingIds)
        merged == Slice0([i \in 1..Len(newEntries) |-> ParseEntry(newEntries[i])]
                         \o existing, MAX_HISTORY_ITEMS)
    IN  [history |-> merged, ret |-> Len(parsed) = Len(json.items)]

\* a merge in which an imported entry takes the place of the stored entry of its run
importHistoryOverwrites(h, json) ==
    IF json.kind # "array" THEN [history |-> h, ret |-> FALSE]
    ELSE
    LET parsed == json.items
    IN  IF \E i \in 1..Len(parsed) :
               \/ Get(parsed[i], "runId", 0) = 0
               \/ Get(parsed[i], "originalFile", UndefStr) = UndefStr
               \/ "methods" \notin DOMAIN parsed[i]
        THEN [history |-> h, ret |-> FALSE]
        ELSE
        LET importedIds == {parsed[i].runId : i \in 1..Len(parsed)}
            kept == SelectSeq(h, LAMBDA e : e.runId \notin importedIds)
            merged == Slice0([i \in 1..Len(parsed) |-> ParseEntry(parsed[i])]
                             \o kept, MAX_HISTORY_ITEMS)
        IN  [history |-> merged, ret |-> TRUE]

\* importHistory: the stored history and the returned boolean
importHistory(h, json) ==
    IF json.kind # "array" THEN [history |-> h, ret |-> FALSE]
    ELSE
    LET parsed == json.items
    IN  IF \E i \in 1..Len(parsed) :
               \/ Get(parsed[i], "runId", 0) = 0
               \/ Get(parsed[i], "originalFile", UndefStr) = UndefStr
               \/ "methods" \notin DOMAIN parsed[i]
        THEN [history |-> h, ret |-> FALSE]
        ELSE
        LET existing == h
            existingIds == RunIdsOf(existing)
            newEntries == SelectSeq(parsed, LAMBDA e : e.runId \notin existingIds)
            merged == Slice0([i \in 1..Len(newEntries) |-> ParseEntry(newEntries[i])]
                             \o existing, MAX_HISTORY_ITEMS)
        IN  [history |-> merged, ret |-> TRUE]

\* a history filled to the cap by MAX_HISTORY_ITEMS runs, the newest first
FullHistory == [i \in 1..MAX_HISTORY_ITEMS |-> SyncRun(MAX_HISTORY_ITEMS + 1 - i, 1)]

\* run ids the operations are called with: the oldest and the newest stored run, and
\* runs that are not stored
InputRunIds ==
    {1, MAX_HISTORY_ITEMS} \cup
    ((MAX_HISTORY_ITEMS + 1)..(MAX_HISTORY_ITEMS + NumNewRuns))

\* texts handed to importHistory: not JSON, JSON that is no array, and arrays of
\* entries, valid or not, with new and stored run ids, also the same run id twice
ImportInputs ==
    LET new == MAX_HISTORY_ITEMS + 1
        Doc(es) == [kind |-> "array", items |-> es]
        E(r, t) == StringifyEntry(SyncRun(r, t))
    IN  {[kind |-> "invalid"], [kind |-> "object"],
         Doc(<<>>),
         Doc(<<E(new, 4)>>),
         Doc(<<E(new, 4), E(new, 5)>>),
         Doc(<<E(1, 4), E(new + 1, 4)>>),
         Doc(<<[runId |-> new, methods |-> <<>>]>>),
         Doc(<<[originalFile |-> "report.pdf", methods |-> <<>>]>>),
         Doc(<<[runId |-> new, originalFile |-> "report.pdf"]>>),
         Doc(<<E(new, 4), [runId |-> new + 1, originalFile |-> "report.pdf"]>>)}

\* updates the poller hands to updateMethodInHistory
MethodUpdates ==
    {TimeoutUpdate, FinishedUpdate(getFileStatus(1, "indexing_completed"))}

\* a step of the store alone; the clock advances with every call, and the call
\* reads the new time
StoreStep(h, op) ==
    /\ now <= MaxOps
    /\ now' = now + 1
    /\ history' = h
    /\ lastOp' = op
    /\ UNCHANGED <<aiView, aiRequests, remote, page, runId, healthStatus, run, methodStatuses,
                   passages, pollTimersRef, pollStartTimesRef, dirty, loops,
                   passFetch, timeoutWrites, server>>

AddToHistoryOp ==
    \E r \in InputRunIds :
        StoreStep(addToHistory(history, SyncRun(r, now')),
                  [op |-> "addToHistory", runId |-> r, entry |-> SyncRun(r, now'),
                   ret |-> TRUE])

CreatePendingEntryOp ==
    \E r \in InputRunIds : \E e \in PendingEntries(r) :
        StoreStep(createPendingEntry(history, e),
                  [op |-> "createPendingEntry", runId |-> r, entry |-> e,
                   ret |-> TRUE])

UpdateMethodOp ==
    \E r \in InputRunIds : \E m \in Methods : \E update \in MethodUpdates :
        StoreStep(updateMethodInHistory(history, r, m, update, now'),
                  [op |-> "updateMethodInHistory", runId |-> r, method |-> m,
                   update |-> update, ret |-> TRUE])

AiComparisonOp ==
    \E r \in InputRunIds :
        StoreStep(updateHistoryWithAiComparison(history, r),
                  [op |-> "updateHistoryWithAiComparison", runId |-> r, ret |-> TRUE])

ClearHistoryOp ==
    StoreStep(clearHistory(history), [op |-> "clearHistory", ret |-> TRUE])

ImportHistoryOp ==
    \E json \in ImportInputs :
        LET res == importHistory(history, json)
        IN  StoreStep(res.history,
                      [op |-> "importHistory", json |-> json, ret |-> res.ret])

\* the exported text is imported again
ExportImportOp ==
    LET res == importHistory(history, exportHistory(history))
    IN  StoreStep(res.history, [op |-> "importExport", ret |-> res.ret])

InitHist ==
    /\ history \in {<<>>, FullHistory}
    /\ remote = <<>>
    /\ InitView

NextHist ==
    \/ AddToHistoryOp
    \/ CreatePendingEntryOp
    \/ UpdateMethodOp
    \/ AiComparisonOp
    \/ ClearHistoryOp
    \/ ImportHistoryOp
    \/ ExportImportOp

SpecHist == InitHist /\ [][NextHist]_vars

---------------------------------------------------------------------------
(* The poller and the passages route *)

\* fetchPassagesForMethod after its await: the passages route has answered the
\* request for `limit=200` with one page; setPassages when res.ok
PassagesFetched ==
    \E f \in BagToSet(passFetch) : \E ok \in BOOLEAN :
        LET data == getFilePassages(f.fid, PASSAGES_LIMIT, UndefNum)
        IN  /\ passFetch' = RemoveFrom(passFetch, f)
            /\ passages' = IF ok /\ f.live THEN passages \cup {f.m} ELSE passages
            /\ dirty' = (dirty \/ (ok /\ f.live))
            /\ lastOp' = IF ok /\ f.live
                         THEN [op |-> "setPassages", method |-> f.m, fileId |-> f.fid,
                               passages |-> data.passages]
                         ELSE lastOp
            /\ UNCHANGED <<aiView, aiRequests, server, history, remote, now, page, runId, healthStatus,
                           run, methodStatuses, pollTimersRef, pollStartTimesRef,
                           loops, timeoutWrites>>

NextPass ==
    \/ RemoteProgress
    \/ OpenRun
    \/ Back
    \/ PollEffect
    \/ ServerStatus
    \/ PollResponse
    \/ TimerFire
    \/ PassagesFetched

SpecPass == Init /\ [][NextPass]_vars

---------------------------------------------------------------------------
(* One method's poll loop next to the loops of the other methods *)

\* the method whose loop is watched: the last one the poll effect comes to
Watched == RunMethods[NumMethods]

\* the poll cycles of the watched method
OfWatched(b) == [l \in {k \in BagToSet(b) : k.m = Watched} |-> b[l]]

\* a status request of another method is answered with an error or throws
OthersError == PollError /\ OfWatched(loops') = OfWatched(loops)

\* the run's page stays open; the other methods' files may stay pending, fail or
\* finish, their requests may fail, the clock may pass their deadline
NextIndep ==
    \/ Tick
    \/ RemoteProgress
    \/ OpenRun
    \/ HealthResponse
    \/ PollEffect
    \/ ServerStatus
    \/ PollResponse
    \/ OthersError
    \/ TimerFire
    \/ PassagesResponse

SpecIndep == Init /\ [][NextIndep]_vars

---------------------------------------------------------------------------
(* The AI comparison of a run: the page's button and dialog, the ai-compare *)
(* route, and the comparison written to the history                        *)

\* ai-compare requests that may be outstanding at once
MaxAiRequests == 2

\* what benchmarkMethod can return for method i of run r
MethodResultsOf(r, i) ==
    LET m == RunMethods[i]
        f == FileIdOf(r, i)
    IN  {CompletedResult(m, f),
         AfterPollResult(m, f, "indexing_pending", MAX_POLL_ATTEMPTS),
         AfterPollResult(m, f, "indexing_failed", 1),
         AfterPollResult(m, f, "upload_failed", 1),
         CatchResult(m, RemoteErrors.upsertFile)}

\* the runs runBenchmark can return
BenchmarkRuns(r) ==
    {[runId |-> r, startedAt |-> 1, completedAt |-> 1, originalFile |-> "report.pdf",
      methods |-> ms, aiComparison |-> FALSE] :
        ms \in {q \in [1..NumMethods -> UNION {MethodResultsOf(r, i) : i \in 1..NumMethods}] :
                   \A i \in 1..NumMethods : q[i] \in MethodResultsOf(r, i)}}

\* runAiComparison's fileIds: run.methods.find(...)?.fileId || ''
FileIdsOf(entry) ==
    [i \in 1..NumMethods |->
        LET k == IndexOfMethod(entry.methods, RunMethods[i])
        IN  IF k = 0 THEN 0 ELSE entry.methods[k].fileId]

\* navigate('/runs/<r>') from the home page: the RunDetailPage loads the run and its
\* comparison from the history
OpenRunAi ==
    \E i \in 1..Len(history) :
        /\ page = "home"
        /\ page' = "detail"
        /\ runId' = history[i].runId
        /\ run' = getRunById(history, history[i].runId)
        /\ aiView' = AiViewOf(getRunById(history, history[i].runId))
        /\ UNCHANGED <<history, remote, now, healthStatus, methodStatuses, passages,
                       pollTimersRef, pollStartTimesRef, dirty, loops, passFetch,
                       timeoutWrites, server, lastOp, aiRequests>>

\* navigate('/'): the RunDetailPage is removed; its request, if one is in flight,
\* goes on without it
BackAi ==
    /\ page = "detail"
    /\ page' = "home"
    /\ runId' = 0
    /\ run' = <<>>
    /\ aiView' = AiViewOf(<<>>)
    /\ aiRequests' = BagOfAll(LAMBDA q : [q EXCEPT !.live = FALSE], aiRequests)
    /\ UNCHANGED <<history, remote, now, healthStatus, methodStatuses, passages,
                   pollTimersRef, pollStartTimesRef, dirty, loops, passFetch,
                   timeoutWrites, server, lastOp>>

AiViewStep(view) ==
    /\ aiView' = view
    /\ UNCHANGED <<history, remote, now, page, runId, healthStatus, run,
                   methodStatuses, passages, pollTimersRef, pollStartTimesRef, dirty,
                   loops, passFetch, timeoutWrites, server, lastOp, aiRequests>>

\* the AI Compare button, disabled while a comparison runs or is shown
ClickAiCompare ==
    /\ page = "detail"
    /\ run # <<>>
    /\ ~(aiView.isRunningAiCompare \/ aiView.aiComparison)
    /\ ~aiView.showAiCompareDialog
    /\ AiViewStep([aiView EXCEPT !.showAiCompareDialog = TRUE])

\* the dialog's Cancel button
CancelAiCompare ==
    /\ page = "detail"
    /\ aiView.showAiCompareDialog
    /\ AiViewStep([aiView EXCEPT !.showAiCompareDialog = FALSE])

\* whether runAiComparison goes on to send the request
CanCompare(fileIds) == \A i \in 1..Len(fileIds) : fileIds[i] # 0

\* the dialog's Run AI Compare button: runAiComparison up to its fetch
RunAiComparison ==
    /\ page = "detail"
    /\ run # <<>>
    /\ aiView.showAiCompareDialog
    /\ LET fileIds == FileIdsOf(run[1])
       IN  IF ~CanCompare(fileIds)
           THEN /\ aiView' = [aiView EXCEPT
                                 !.error = "Cannot run AI comparison: some methods failed"]
                /\ UNCHANGED aiRequests
           ELSE /\ BagCardinality(aiRequests) < MaxAiRequests
                /\ aiView' = [aiView EXCEPT !.isRunningAiCompare = TRUE,
                                            !.showAiCompareDialog = FALSE,
                                            !.error = UndefStr]
                /\ aiRequests' = AddTo(aiRequests,
                                       [rid |-> run[1].runId, fileIds |-> fileIds,
                                        live |-> TRUE, resp |-> "none",
                                        invoked |-> FALSE])
    /\ UNCHANGED <<history, remote, now, page, runId, healthStatus, run,
                   methodStatuses, passages, pollTimersRef, pollStartTimesRef, dirty,
                   loops, passFetch, timeoutWrites, server, lastOp>>

\* the ai-compare route answers request q: 400 for a missing runId or fileId,
\* else the server's runAiComparison is called and returns or throws
AiCompareRouteOf(q) ==
    /\ q.resp = "none"
    /\ \E outcome \in {"ok", "500"} :
          LET valid == q.rid # 0 /\ \A i \in 1..Len(q.fileIds) : q.fileIds[i] # 0
          IN  aiRequests' = AddTo(RemoveFrom(aiRequests, q),
                                  [q EXCEPT !.resp = IF valid THEN outcome ELSE "400",
                                            !.invoked = valid])
    /\ UNCHANGED <<history, remote, now, page, runId, healthStatus, run,
                   methodStatuses, passages, pollTimersRef, pollStartTimesRef, dirty,
                   loops, passFetch, timeoutWrites, server, lastOp, aiView>>

AiCompareRoute == \E q \in BagToSet(aiRequests) : AiCompareRouteOf(q)

\* runAiComparison after its fetch, for the answered request q: the comparison is
\* shown and written to the history, or the error is shown; finally the running flag
\* is reset. The state setters of a page that is gone reach nothing.
AiResponseOf(q) ==
    /\ q.resp # "none"
    /\ aiRequests' = RemoveFrom(aiRequests, q)
    /\ IF q.resp = "ok"
       THEN /\ history' = updateHistoryWithAiComparison(history, q.rid)
            /\ lastOp' = [op |-> "updateHistoryWithAiComparison", runId |-> q.rid,
                          ret |-> TRUE]
            /\ aiView' = IF q.live
                         THEN [aiView EXCEPT !.aiComparison = TRUE,
                                             !.isRunningAiCompare = FALSE]
                         ELSE aiView
       ELSE /\ aiView' = IF q.live
                         THEN [aiView EXCEPT !.error = "AI comparison failed",
                                             !.isRunningAiCompare = FALSE]
                         ELSE aiView
            /\ UNCHANGED <<history, lastOp>>
    /\ UNCHANGED <<remote, now, page, runId, healthStatus, run, methodStatuses,
                   passages, pollTimersRef, pollStartTimesRef, dirty, loops,
                   passFetch, timeoutWrites, server>>

AiResponse == \E q \in BagToSet(aiRequests) : AiResponseOf(q)

InitAi ==
    /\ history \in {<<e>> : e \in BenchmarkRuns(1)}
    /\ remote = <<>>
    /\ InitView

NextAi ==
    \/ OpenRunAi
    \/ BackAi
    \/ ClickAiCompare
    \/ CancelAiCompare
    \/ RunAiComparison
    \/ AiCompareRoute
    \/ AiResponse

SpecAi == InitAi /\ [][NextAi]_vars

---------------------------------------------------------------------------
(* The excerpt of a file that the server's runAiComparison sends to the    *)
(* extraction: strings are sequences of characters                         *)

EXCERPT_CHAR_LIMIT == 4000

\* passages in a fetched list
MaxPassages == 3

\* the characters String.prototype.trim removes
Whitespace == {" ", "\n", "\t", "\r"}

\* n times the character c
Rep(c, n) == [i \in 1..n |-> c]

RECURSIVE TrimStart(_)
TrimStart(s) ==
    IF s = <<>> THEN s
    ELSE IF Head(s) \in Whitespace THEN TrimStart(Tail(s)) ELSE s

RECURSIVE TrimEnd(_)
TrimEnd(s) ==
    IF s = <<>> THEN s
    ELSE IF s[Len(s)] \in Whitespace THEN TrimEnd(SubSeq(s, 1, Len(s) - 1)) ELSE s

\* String.prototype.trim
trim(s) == TrimEnd(TrimStart(s))

\* '[No content extracted]'
NoContentExtracted ==
    <<"[", "N", "o", " ", "c", "o", "n", "t", "e", "n", "t", " ",
      "e", "x", "t", "r", "a", "c", "t", "e", "d", "]">>

\* '[Failed to fetch content]'
FailedToFetchContent ==
    <<"[", "F", "a", "i", "l", "e", "d", " ", "t", "o", " ", "f", "e", "t", "c", "h", " ",
      "c", "o", "n", "t", "e", "n", "t", "]">>

\* a loop that passes over a passage that does not fit and goes on with the next
RECURSIVE ExcerptLoopSkips(_, _, _)
ExcerptLoopSkips(ps, i, excerpt) ==
    IF i > Len(ps) THEN excerpt
    ELSE IF Len(excerpt) + Len(ps[i].content) > EXCERPT_CHAR_LIMIT
         THEN ExcerptLoopSkips(ps, i + 1, excerpt)
         ELSE ExcerptLoopSkips(ps, i + 1, excerpt \o ps[i].content \o <<"\n", "\n">>)

\* getExcerpt's loop from passage i on, with the excerpt built so far
RECURSIVE ExcerptLoop(_, _, _)
ExcerptLoop(ps, i, excerpt) ==
    IF i > Len(ps) THEN excerpt
    ELSE IF Len(excerpt) + Len(ps[i].content) > EXCERPT_CHAR_LIMIT
         THEN excerpt
         ELSE ExcerptLoop(ps, i + 1, excerpt \o ps[i].content \o <<"\n", "\n">>)

\* getExcerpt, given what getFilePassages(fileId, 50) did: it threw, or it returned
\* a page of passages
getExcerpt(fetched) ==
    IF fetched.threw
    THEN FailedToFetchContent
    ELSE LET excerpt == trim(ExcerptLoop(fetched.passages, 1, <<>>))
         IN  IF excerpt = <<>> THEN NoContentExtracted ELSE excerpt

\* passage contents: of lengths around the limit and its half, empty, and with
\* white space at the ends
Contents ==
    {Rep("a", n) : n \in {0, 1, 1998, 1999, EXCERPT_CHAR_LIMIT, EXCERPT_CHAR_LIMIT + 1}}
        \cup {<<" ">>, <<" ", "b", "\n">>}

\* the pages getFilePassages can return
PassageLists ==
    UNION {[1..n -> {[content |-> c] : c \in Contents}] : n \in 0..MaxPassages}

\* what getFilePassages(fileId, 50) can do
Fetches ==
    {[threw |-> TRUE, passages |-> <<>>]}
        \cup {[threw |-> FALSE, passages |-> ps] : ps \in PassageLists}

\* getExcerpt is called for a file of the service; remote is what the service does
\* when its passages are listed
InitExcerpt ==
    /\ history = <<>>
    /\ remote \in Fetches
    /\ InitView

\* getExcerpt returns
GetExcerptReturns ==
    /\ lastOp = NoOp
    /\ lastOp' = [op |-> "getExcerpt", ret |-> getExcerpt(remote)]
    /\ UNCHANGED <<aiView, aiRequests, server, history, remote, now, page, runId,
                   healthStatus, run, methodStatuses, passages, pollTimersRef,
                   pollStartTimesRef, dirty, loops, passFetch, timeoutWrites>>

NextExcerpt == GetExcerptReturns

SpecExcerpt == InitExcerpt /\ [][NextExcerpt]_vars

---------------------------------------------------------------------------
(* The server: its credentials and client, and its routes. A request is    *)
(* handled to its response; the response is recorded with the core         *)
(* functions the handler called and the calls made to the remote services. *)

\* values of an environment variable: not set, empty, set
EnvValues == {UndefStr, "", "set"}

\* !v of a string that may be undefined
Falsy(v) == v \in {UndefStr, ""}

MissingCredentials == "Missing BOTPRESS_TOKEN or BOTPRESS_BOT_ID environment variables"

\* a call returned value, or threw an error with a message, after the remote calls
\* it made, leaving the server as srv
Gave(value, calls, srv) ==
    [threw |-> FALSE, value |-> value, calls |-> calls, srv |-> srv]
Threw(message, calls, srv) ==
    [threw |-> TRUE, message |-> message, calls |-> calls, srv |-> srv]

\* a call made to a remote service
RemoteCall(op, arg) == [op |-> op, arg |-> arg]

hasCredentials(srv) ==
    [hasBotId |-> ~Falsy(srv.env.BOTPRESS_BOT_ID),
     hasToken |-> ~Falsy(srv.env.BOTPRESS_TOKEN)]

\* a client that is constructed whatever the environment holds
getBotpressClientAnyway(srv) == Gave("client", <<>>, [srv EXCEPT !.clientInstance = TRUE])

getBotpressClient(srv) ==
    IF ~srv.clientInstance
    THEN IF Falsy(srv.env.BOTPRESS_TOKEN) \/ Falsy(srv.env.BOTPRESS_BOT_ID)
         THEN Threw(MissingCredentials, <<>>, srv)
         ELSE Gave("client", <<>>, [srv EXCEPT !.clientInstance = TRUE])
    ELSE Gave("client", <<>>, srv)

\* METHODS.map((m) => m.name)
validMethods == {METHODS[i] : i \in 1..Len(METHODS)}

\* getMethodConfig: the index of the method in METHODS, 0 for undefined
getMethodConfig(methodName) == IndexOfMethod([i \in 1..Len(METHODS) |-> [method |-> METHODS[i]]], methodName)

\* what the remote service can do during startMethod
StartOutcomes == {"upsertFile throws", "no uploadUrl", "upload rejects", "uploaded"}

\* startMethod, with what the remote service does during the call
startMethod(srv, methodName, o) ==
    LET c == getBotpressClient(srv)
        upsert == RemoteCall("upsertFile", methodName)
        upload == RemoteCall("upload", methodName)
    IN  IF c.threw THEN c
        ELSE IF getMethodConfig(methodName) = 0
        THEN Threw("Unknown method", <<>>, c.srv)
        ELSE IF o = "upsertFile throws"
        THEN Threw(RemoteErrors.upsertFile, <<upsert>>, c.srv)
        ELSE IF o = "no uploadUrl"
        THEN Threw(RemoteErrors.uploadUrl, <<upsert>>, c.srv)
        ELSE IF o = "upload rejects"
        THEN Threw(RemoteErrors.upload, <<upsert, upload>>, c.srv)
        ELSE Gave([fileId |-> 1, method |-> methodName], <<upsert, upload>>, c.srv)

\* what benchmarkMethod can do for method i: its result and the remote calls it made
BenchmarkOutcomes(i) ==
    {[result |-> r,
      calls |-> IF r.fileId = 0
                THEN <<RemoteCall("upsertFile", RunMethods[i])>>
                ELSE <<RemoteCall("upsertFile", RunMethods[i]),
                       RemoteCall("upload", RunMethods[i]),
                       RemoteCall("getFile", r.fileId)>>] : r \in MethodResultsOf(1, i)}

\* the remote calls of methods i.. in the outcomes o
RECURSIVE CallsFrom(_, _)
CallsFrom(o, i) == IF i > Len(o) THEN <<>> ELSE o[i].calls \o CallsFrom(o, i + 1)

\* runBenchmark, with what each benchmarkMethod call does
runBenchmark(srv, o) ==
    LET c == getBotpressClient(srv)
    IN  IF c.threw THEN c
        ELSE Gave([runId |-> 1, methods |-> [i \in 1..Len(o) |-> o[i].result]],
                  CallsFrom(o, 1), c.srv)

\* the files of an ai-compare request
AiKeys == {"basic", "vision", "landingAi"}

\* the extraction is left out when the passages of a file could not be fetched
runAiComparisonSkipsFailed(srv, rid, fileIds, o) ==
    LET c == getBotpressClient(srv)
        fetches == <<RemoteCall("listFilePassages", fileIds["basic"]),
                     RemoteCall("listFilePassages", fileIds["vision"]),
                     RemoteCall("listFilePassages", fileIds["landingAi"])>>
        excerpts == [k \in AiKeys |-> getExcerpt(o.fetch[k])]
    IN  IF c.threw THEN c
        ELSE IF \E k \in AiKeys : o.fetch[k].threw
        THEN Threw("listFilePassages failed", fetches, c.srv)
        ELSE IF o.extract = "throws"
        THEN Threw("extract failed", Append(fetches, RemoteCall("extract", excerpts)), c.srv)
        ELSE Gave([runId |-> rid],
                  Append(fetches, RemoteCall("extract", excerpts)), c.srv)

\* the server's runAiComparison, with what the passage fetches and the extraction do
runAiComparison(srv, rid, fileIds, o) ==
    LET c == getBotpressClient(srv)
        fetches == <<RemoteCall("listFilePassages", fileIds["basic"]),
                     RemoteCall("listFilePassages", fileIds["vision"]),
                     RemoteCall("listFilePassages", fileIds["landingAi"])>>
        excerpts == [k \in AiKeys |-> getExcerpt(o.fetch[k])]
    IN  IF c.threw THEN c
        ELSE IF o.extract = "throws"
        THEN Threw("extract failed", Append(fetches, RemoteCall("extract", excerpts)), c.srv)
        ELSE Gave([runId |-> rid],
                  Append(fetches, RemoteCall("extract", excerpts)), c.srv)

\* a response, with the core functions the handler called and the remote calls made
Response(route, req, status, body, core, calls) ==
    [route |-> route, req |-> req, status |-> status, body |-> body, core |-> core,
     calls |-> calls]

\* a handler's answer: the response and the server after it
Answer(srv, response) == [srv |-> srv, response |-> response]

\* GET /api/botpress/health
HealthRouteOf(srv) ==
    LET creds == hasCredentials(srv)
    IN  Answer(srv, Response("health", "GET", 200,
                   [status |-> IF creds.hasBotId /\ creds.hasToken
                               THEN "configured" ELSE "missing_credentials",
                    hasBotId |-> creds.hasBotId, hasToken |-> creds.hasToken],
                   <<>>, <<>>))

\* the answer of a route to what its core function did
AfterCore(route, req, name, r) ==
    Answer(r.srv, IF r.threw
                  THEN Response(route, req, 500, [error |-> r.message], <<name>>, r.calls)
                  ELSE Response(route, req, 200, r.value, <<name>>, r.calls))

\* POST /api/botpress/benchmark
BenchmarkRouteOf(srv, req, o) ==
    IF req.body = "malformed"
    THEN Answer(srv, Response("benchmark", req, 500, [error |-> "formData failed"],
                              <<>>, <<>>))
    ELSE IF req.body = "no file"
    THEN Answer(srv, Response("benchmark", req, 400, [error |-> "No file provided"],
                              <<>>, <<>>))
    ELSE AfterCore("benchmark", req, "runBenchmark", runBenchmark(srv, o))

\* a handler that starts the method before it looks for the file
StartRouteChecksLate(srv, req, o) ==
    IF req.method \notin validMethods
    THEN Answer(srv, Response("start", req, 400, [error |-> "Invalid method"],
                              <<>>, <<>>))
    ELSE IF req.body = "malformed"
    THEN Answer(srv, Response("start", req, 500, [error |-> "formData failed"],
                              <<>>, <<>>))
    ELSE LET r == startMethod(srv, req.method, o)
         IN  IF req.body = "no file"
             THEN Answer(r.srv, Response("start", req, 400,
                                         [error |-> "No file provided"],
                                         <<"startMethod">>, r.calls))
             ELSE AfterCore("start", req, "startMethod", r)

\* POST /api/botpress/methods/:method/start
StartRouteOf(srv, req, o) ==
    IF req.method \notin validMethods
    THEN Answer(srv, Response("start", req, 400, [error |-> "Invalid method"],
                              <<>>, <<>>))
    ELSE IF req.body = "malformed"
    THEN Answer(srv, Response("start", req, 500, [error |-> "formData failed"],
                              <<>>, <<>>))
    ELSE IF req.body = "no file"
    THEN Answer(srv, Response("start", req, 400, [error |-> "No file provided"],
                              <<>>, <<>>))
    ELSE AfterCore("start", req, "startMethod", startMethod(srv, req.method, o))

\* fileIds?.<k> of a request whose fileIds may lack keys
FileIdIn(req, k) == IF k \in DOMAIN req.fileIds THEN req.fileIds[k] ELSE ""

\* POST /api/botpress/ai-compare
AiCompareHandler(srv, req, o) ==
    IF req.body = "malformed"
    THEN Answer(srv, Response("ai-compare", req, 500, [error |-> "json failed"],
                              <<>>, <<>>))
    ELSE IF Falsy(req.runId) \/ \E k \in AiKeys : Falsy(FileIdIn(req, k))
    THEN Answer(srv, Response("ai-compare", req, 400,
                              [error |-> "Missing runId or fileIds"], <<>>, <<>>))
    ELSE AfterCore("ai-compare", req, "runAiComparison",
                   runAiComparison(srv, req.runId, req.fileIds, o))

\* what a search of one method's files can do: return the passages the service
\* ranked, or throw an Error with a message, or throw another value
SearchOutcomes ==
    {[threw |-> FALSE, passages |-> ps] :
        ps \in {<<>>, <<[content |-> "revenue table", score |-> 9],
                        [content |-> "revenue", score |-> 5]>>}}
      \cup {[threw |-> TRUE, isError |-> TRUE, message |-> "Search unavailable"],
            [threw |-> TRUE, isError |-> FALSE, message |-> UndefStr]}

\* searchFilesByMethod(query, runId, method, limit), given what the search does
searchFilesByMethod(query, rid, method, limit, o) == o

\* the methods the search route asks
SearchMethods == <<"basic", "vision", "landing-ai">>

\* a route that lets the error of one method's search end the request
SearchRouteNoCatch(srv, req, o) ==
    IF Falsy(req.q) \/ Falsy(req.runId)
    THEN Answer(srv, Response("search", req, 400, [error |-> "Missing query or runId"],
                              <<>>, <<>>))
    ELSE LET found == [i \in 1..Len(SearchMethods) |->
                          searchFilesByMethod(req.q, req.runId, SearchMethods[i], 10, o[i])]
             core == [i \in 1..Len(SearchMethods) |-> "searchFilesByMethod"]
         IN  IF \E i \in 1..Len(SearchMethods) : found[i].threw
             THEN Answer(srv, Response("search", req, 500, [error |-> "Search failed"],
                                       core, <<>>))
             ELSE Answer(srv, Response("search", req, 200,
                             [query |-> req.q,
                              results |-> [i \in 1..Len(SearchMethods) |->
                                              [method |-> SearchMethods[i],
                                               passages |-> found[i].passages,
                                               error |-> UndefStr]]],
                             core, <<>>))

\* GET /api/botpress/search
SearchRouteOf(srv, req, o) ==
    IF Falsy(req.q) \/ Falsy(req.runId)
    THEN Answer(srv, Response("search", req, 400, [error |-> "Missing query or runId"],
                              <<>>, <<>>))
    ELSE LET found == [i \in 1..Len(SearchMethods) |->
                          searchFilesByMethod(req.q, req.runId, SearchMethods[i], 10, o[i])]
         IN  Answer(srv, Response("search", req, 200,
                        [query |-> req.q,
                         results |-> [i \in 1..Len(SearchMethods) |->
                                         IF found[i].threw
                                         THEN [method |-> SearchMethods[i],
                                               passages |-> <<>>,
                                               error |-> IF found[i].isError
                                                         THEN found[i].message
                                                         ELSE "Search failed"]
                                         ELSE [method |-> SearchMethods[i],
                                               passages |-> found[i].passages,
                                               error |-> UndefStr]]],
                        [i \in 1..Len(SearchMethods) |-> "searchFilesByMethod"], <<>>))

\* the handler's answer becomes the state: lastOp is the response, with what the
\* remote services did during the request
Handle(answer, o) ==
    /\ server' = answer.srv
    /\ lastOp' = [answer.response EXCEPT !.req = [request |-> @, outcome |-> o]]
    /\ UNCHANGED <<aiView, aiRequests, history, remote, now, page, runId, healthStatus,
                   run, methodStatuses, passages, pollTimersRef, pollStartTimesRef,
                   dirty, loops, passFetch, timeoutWrites>>

HealthRoute == Handle(HealthRouteOf(server), "none")

BenchmarkRoute ==
    \E body \in {"file", "no file", "malformed"} :
        \E o \in {q \in [1..NumMethods -> UNION {BenchmarkOutcomes(i) : i \in 1..NumMethods}] :
                     \A i \in 1..NumMethods : q[i] \in BenchmarkOutcomes(i)} :
            Handle(BenchmarkRouteOf(server, [body |-> body], o), o)

\* method names a request can carry
RequestMethods == validMethods \cup {"ocr"}

StartRoute ==
    \E method \in RequestMethods, body \in {"file", "no file", "malformed"},
       o \in StartOutcomes :
        Handle(StartRouteOf(server, [method |-> method, body |-> body], o), o)

\* another caller of startMethod than the route
StartMethodCall ==
    \E method \in RequestMethods, o \in StartOutcomes :
        LET r == startMethod(server, method, o)
        IN  Handle(Answer(r.srv, [route |-> "startMethod()", req |-> method,
                                  threw |-> r.threw,
                                  body |-> IF r.threw THEN [error |-> r.message]
                                           ELSE r.value,
                                  status |-> 0, core |-> <<"startMethod">>,
                                  calls |-> r.calls]), o)

\* the fileIds of ai-compare requests: complete, with an empty one, with one
\* missing, and missing altogether
RequestFileIds ==
    {[k \in AiKeys |-> "file"],
     [k \in AiKeys |-> IF k = "basic" THEN "" ELSE "file"],
     [k \in AiKeys \ {"landingAi"} |-> "file"],
     <<>>}

\* what a passage fetch can do during runAiComparison
AiFetches ==
    {[threw |-> TRUE, passages |-> <<>>],
     [threw |-> FALSE, passages |-> <<>>],
     [threw |-> FALSE, passages |-> <<[content |-> <<"a">>]>>]}

\* ai-compare requests: a body that is not JSON, and bodies with or without a
\* runId and with each of the fileIds
AiCompareRequests ==
    {[body |-> "malformed", runId |-> "run-1", fileIds |-> <<>>]}
      \cup {[body |-> "json", runId |-> r, fileIds |-> [k \in AiKeys |-> "file"]] :
               r \in {UndefStr, "", "run-1"}}
      \cup {[body |-> "json", runId |-> "run-1", fileIds |-> f] : f \in RequestFileIds}

AiCompareServerRoute ==
    \E req \in AiCompareRequests :
        \E o \in [fetch : [AiKeys -> AiFetches], extract : {"returns", "throws"}] :
            Handle(AiCompareHandler(server, req, o), o)

\* search requests: with or without a query and a runId
SearchRequests ==
    {[q |-> q, runId |-> "run-1"] : q \in {UndefStr, "", "revenue"}}
      \cup {[q |-> "revenue", runId |-> r] : r \in {UndefStr, "", "run-1"}}

SearchRoute ==
    \E req \in SearchRequests :
        \E o \in [1..Len(SearchMethods) -> SearchOutcomes] :
            Handle(SearchRouteOf(server, req, o), o)

\* the server starts with its environment and without a client
InitServer ==
    /\ history = <<>>
    /\ remote = <<>>
    /\ InitPage
    /\ lastOp = NoOp
    /\ \E token \in EnvValues, botId \in EnvValues :
          server = [env |-> [BOTPRESS_TOKEN |-> token, BOTPRESS_BOT_ID |-> botId],
                    clientInstance |-> FALSE]

NextServer ==
    \/ HealthRoute
    \/ BenchmarkRoute
    \/ StartRoute
    \/ StartMethodCall
    \/ AiCompareServerRoute
    \/ SearchRoute

SpecServer == InitServer /\ [][NextServer]_vars

---------------------------------------------------------------------------
(* getFileStatus on the files the service can hold *)

\* files whose status is asked for
NumFiles == 4

\* what client.getFile can return: every status, with a reason, an empty one or none
RemoteFiles ==
    [id : 1..NumFiles,
     status : PendingStatuses \cup TerminalStatuses,
     failedStatusReason : {UndefStr, "", "remote reason"}]

\* remote is the file the service holds
InitStatus ==
    /\ history = <<>>
    /\ remote \in RemoteFiles
    /\ InitView

\* GET /api/botpress/files/:id/status: getFileStatus returns
GetFileStatusReturns ==
    /\ lastOp = NoOp
    /\ lastOp' = [op |-> "getFileStatus", ret |-> getFileStatusOf(remote.id, remote)]
    /\ UNCHANGED <<aiView, aiRequests, server, history, remote, now, page, runId,
                   healthStatus, run, methodStatuses, passages, pollTimersRef,
                   pollStartTimesRef, dirty, loops, passFetch, timeoutWrites>>

NextStatus == GetFileStatusReturns

SpecStatus == InitStatus /\ [][NextStatus]_vars

---------------------------------------------------------------------------
(* getAllPassages against a service that pages as it likes *)

\* pages a call may request
MaxPages == 3

\* .replace(/\r\n/g, '\n')
RECURSIVE ReplaceCRLF(_)
ReplaceCRLF(s) ==
    IF s = <<>> THEN s
    ELSE IF Len(s) >= 2 /\ s[1] = "\r" /\ s[2] = "\n"
         THEN <<"\n">> \o ReplaceCRLF(SubSeq(s, 3, Len(s)))
         ELSE <<Head(s)>> \o ReplaceCRLF(Tail(s))

\* .replace(/\t/g, '  ')
RECURSIVE ReplaceTabs(_)
ReplaceTabs(s) ==
    IF s = <<>> THEN s
    ELSE (IF Head(s) = "\t" THEN <<" ", " ">> ELSE <<Head(s)>>) \o ReplaceTabs(Tail(s))

\* .replace(/\n{3,}/g, '\n\n')
RECURSIVE CollapseNewlines(_)
CollapseNewlines(s) ==
    IF s = <<>> THEN s
    ELSE IF Len(s) >= 3 /\ s[1] = "\n" /\ s[2] = "\n" /\ s[3] = "\n"
         THEN CollapseNewlines(Tail(s))
         ELSE <<Head(s)>> \o CollapseNewlines(Tail(s))

beautifyText(text) == trim(CollapseNewlines(ReplaceTabs(ReplaceCRLF(text))))

\* the passages of a page as getAllPassages pushes them
Pushed(ps) == [i \in 1..Len(ps) |-> [id |-> ps[i].id, content |-> beautifyText(ps[i].content)]]

\* a loop that keeps the passages of the last page only
AfterPageLastOnly(call, result) ==
    [pc |-> IF result.nextToken # UndefStr THEN "listFilePassages" ELSE "returned",
     allPassages |-> Pushed(result.passages),
     nextToken |-> result.nextToken,
     requests |-> Append(call.requests, call.nextToken),
     pages |-> Append(call.pages, result)]

\* one turn of getAllPassages' do-while: listFilePassages is called with the token
\* held and answers result
AfterPage(call, result) ==
    [pc |-> IF result.nextToken # UndefStr THEN "listFilePassages" ELSE "returned",
     allPassages |-> call.allPassages \o Pushed(result.passages),
     nextToken |-> result.nextToken,
     requests |-> Append(call.requests, call.nextToken),
     pages |-> Append(call.pages, result)]

\* what the service can answer to a page request: passages, and a token when more
\* follow
ServicePages ==
    [passages : {<<>>,
                 <<[id |-> "p1", content |-> <<"a">>]>>,
                 <<[id |-> "p2", content |-> <<" ", "a", "\t", "b", "\r", "\n", "\n", "\n", "\n", "c">>],
                   [id |-> "p3", content |-> <<"d">>]>>},
     nextToken : {UndefStr, "token-1", "token-2"}]

\* getAllPassages was called: nothing collected, no token
InitPages ==
    /\ history = <<>>
    /\ remote = <<>>
    /\ InitPage
    /\ lastOp = NoOp
    /\ server = [pc |-> "listFilePassages", allPassages |-> <<>>, nextToken |-> UndefStr,
                 requests |-> <<>>, pages |-> <<>>]

\* client.listFilePassages answers
ListFilePassagesReturns ==
    /\ server.pc = "listFilePassages"
    /\ Len(server.pages) < MaxPages
    /\ \E result \in ServicePages : server' = AfterPage(server, result)
    /\ UNCHANGED <<aiView, aiRequests, lastOp, history, remote, now, page, runId,
                   healthStatus, run, methodStatuses, passages, pollTimersRef,
                   pollStartTimesRef, dirty, loops, passFetch, timeoutWrites>>

NextPages == ListFilePassagesReturns

SpecPages == InitPages /\ [][NextPages]_vars

---------------------------------------------------------------------------
(* Vocabulary of the properties *)

\* the method record of method m of run rid in a history h that holds it
RecordOf(h, rid, m) ==
    LET e == h[IndexOfRun(h, rid)]
    IN  e.methods[IndexOfMethod(e.methods, m)]

\* the (run, method) pairs a history holds
RecordKeys(h) ==
    {<<h[i].runId, h[i].methods[k].method>> :
        i \in 1..Len(h), k \in 1..NumMethods}

\* the part of a bag of cycles that lies in the set S
Among(b, S) == [l \in BagToSet(b) \cap S |-> b[l]]

\* poll cycles of the mounted view for method m: requests in flight and timers set
LiveCycles(b, m) ==
    BagCardinality(Among(b, {l \in BagToSet(b) : l.live /\ l.m = m}))

\* status requests for file f that were sent and are not yet answered
OpenRequests(b, f) ==
    BagCardinality(Among(b, {l \in BagToSet(b) :
                                l.fid = f /\ l.phase = "request" /\ l.resp = "none"}))

\* poll cycles, of any view, for file f
CyclesOf(b, f) ==
    BagCardinality(Among(b, {l \in BagToSet(b) : l.fid = f}))

\* status requests of the mounted view for method m that are sent and not answered
LiveRequests(b, m) ==
    BagCardinality(Among(b, {l \in BagToSet(b) :
                                l.live /\ l.m = m /\ l.phase = "request"
                                /\ l.resp = "none"}))

\* the benchmarkMethod calls that are between their enqueue and their result
InFlight ==
    IF server.pc = "idle" THEN {}
    ELSE {i \in 1..Len(METHODS) : server.calls[i].pc \notin {"new", "returned"}}

\* the run records: the run the server returned and the runs in the history
RunRecords ==
    (IF server.pc \in {"done", "stored"} THEN {RunResult} ELSE {})
    \cup {history[i] : i \in 1..Len(history)}

---------------------------------------------------------------------------
(* Properties *)

\* C1: once the status of a method record in the persisted history is terminal, no
\* step changes it to a different value
C1_TerminalStatusKept ==
    [][\A key \in RecordKeys(history) :
          RecordOf(history, key[1], key[2]).status \in TerminalStatuses
          => RecordOf(history', key[1], key[2]).status
               = RecordOf(history, key[1], key[2]).status]_vars

\* C2: once timeout is recorded for a method, the record stays timeout and no further
\* status request is issued for the method's file
C2_TimeoutIsFinal ==
    [][\A key \in RecordKeys(history) :
          RecordOf(history, key[1], key[2]).status = "timeout"
          => /\ RecordOf(history', key[1], key[2]).status = "timeout"
             /\ OpenRequests(loops', RecordOf(history, key[1], key[2]).fileId)
                  <= OpenRequests(loops, RecordOf(history, key[1], key[2]).fileId)]_vars

\* C3: timeout is written to a method record at most once, and once it is written no
\* poll cycle is started or scheduled for the method's file
C3_TimeoutOnce ==
    [][/\ \A key \in DOMAIN timeoutWrites' : timeoutWrites'[key] <= 1
       /\ \A key \in DOMAIN timeoutWrites :
             CyclesOf(loops', RecordOf(history, key[1], key[2]).fileId)
               <= CyclesOf(loops, RecordOf(history, key[1], key[2]).fileId)]_vars

\* C4: the mounted view never has more than one outstanding status request or
\* scheduled timer for the same method
C4_OneLoopPerMethod ==
    \A m \in Methods : LiveCycles(loops, m) <= 1

\* C5: while the remote service reports a pending status for the file of a method
\* record, no step writes a terminal status other than timeout to the record, and
\* timeout only once more than MAX_POLL_TIME_MS passed since the recorded start; a
\* step that writes indexing_completed, indexing_failed or upload_failed to a record
\* finds exactly that status reported for the record's file
C5_TerminalOnlyAsReported ==
    [][\A key \in RecordKeys(history) :
          LET old == RecordOf(history, key[1], key[2])
              new == RecordOf(history', key[1], key[2])
          IN  (new.status # old.status /\ new.status \in TerminalStatuses)
              => /\ remote[old.fileId] \in PendingStatuses
                    => /\ new.status = "timeout"
                       /\ now - old.startedAt > MAX_POLL_TIME_MS
                 /\ new.status # "timeout" => remote[old.fileId] = new.status]_vars

\* C6 (its second half): while the view is mounted and has run its poll effect, every
\* method it shows as pending, with a file and a pending persisted status, has a poll
\* cycle in progress; a failed status request does not end the loop
C6_LoopSurvivesErrors ==
    (page = "detail" /\ ~dirty /\ run # <<>>)
    => \A k \in 1..Len(run[1].methods) :
          LET method == run[1].methods[k]
          IN  (/\ method.status \in PendingStatuses
               /\ method.fileId # 0
               /\ RecordOf(history, run[1].runId, method.method).status
                    \in PendingStatuses)
              => LiveCycles(loops, method.method) >= 1

\* C7: after the view is torn down no poll callback of it is scheduled
C7_NoTimerAfterTeardown ==
    page = "home" => \A l \in BagToSet(loops) : l.phase # "timer"

\* C8: a mount loads the run from the persisted history with empty poll refs, and the
\* poll effect that follows starts polling for every method the loaded run holds as
\* pending with a file (or records its timeout), and starts none for a terminal method
C8_RemountResumesPolling ==
    [][/\ ((OpenRun \/ Reload) /\ page' = "detail")
          => /\ run' = getRunById(history', runId')
             /\ pollTimersRef' = {}
             /\ dirty'
       /\ (PollEffect /\ run # <<>>)
          => \A k \in 1..Len(run[1].methods) :
                LET method == run[1].methods[k]
                IN  /\ (method.status \in PendingStatuses /\ method.fileId # 0)
                       => \/ LiveRequests(loops', method.method) >= 1
                          \/ RecordOf(history', runId, method.method).status = "timeout"
                    /\ method.status \in TerminalStatuses
                       => LiveCycles(loops', method.method)
                            <= LiveCycles(loops, method.method)]_vars

\* C8 witness: the view was torn down while a request was in flight (a cycle of the
\* removed view is left) and mounted again; polling runs for the method that is still
\* pending in the history and not for the terminal one
C8_Witness ==
    /\ page = "detail" /\ ~dirty
    /\ \E l \in BagToSet(loops) : ~l.live
    /\ \E m1, m2 \in Methods :
          /\ RecordOf(history, runId, m1).status \in PendingStatuses
          /\ LiveRequests(loops, m1) = 1
          /\ RecordOf(history, runId, m2).status \in TerminalStatuses
          /\ LiveCycles(loops, m2) = 0

\* C9: a poll cycle that starts more than MAX_POLL_TIME_MS after the start time
\* recorded with the method, while the file is still pending, sends no status request
\* (it records timeout instead)
C9_DeadlineFromRecordedStart ==
    [][\A key \in RecordKeys(history) :
          LET rec == RecordOf(history, key[1], key[2])
          IN  (/\ remote[rec.fileId] \in PendingStatuses
               /\ now - rec.startedAt > MAX_POLL_TIME_MS)
              => OpenRequests(loops', rec.fileId) <= OpenRequests(loops, rec.fileId)]_vars

\* C10: completedAt of a run is set exactly when every method of the run is terminal:
\* it is empty while a method is pending and set by the update that makes all terminal
C10_CompletedAtIffAllTerminal ==
    \A i \in 1..Len(history) :
        (history[i].completedAt # 0)
        <=> (\A k \in 1..Len(history[i].methods) :
                history[i].methods[k].status \in TerminalStatuses)

\* C10 witness: a run whose methods all became terminal and whose completedAt is set
C10_Witness ==
    \E i \in 1..Len(history) :
        /\ history[i].completedAt # 0
        /\ \E k \in 1..Len(history[i].methods) : history[i].methods[k].status = "timeout"
        /\ \E k \in 1..Len(history[i].methods) :
               history[i].methods[k].status = "indexing_completed"

\* whether every method of a history entry has a terminal status
AllTerminal(e) ==
    \A k \in 1..Len(e.methods) : e.methods[k].status \in TerminalStatuses

\* C11: a call of updateMethodInHistory sets completedAt of a run exactly when it is
\* the first call after which every method of the run is terminal, to the time of
\* that call, and no later call changes a completedAt that is set
C11_CompletedAtSetOnce ==
    [][lastOp'.op = "updateMethodInHistory" =>
        /\ Len(history') = Len(history)
        /\ \A i \in 1..Len(history) :
              LET old == history[i]
                  new == history'[i]
              IN  /\ old.completedAt # 0 => new.completedAt = old.completedAt
                  /\ (old.completedAt = 0 /\ new.completedAt # 0)
                         => (/\ new.completedAt = now'
                             /\ i = IndexOfRun(history, lastOp'.runId)
                             /\ AllTerminal(new))
                  /\ (/\ old.completedAt = 0
                      /\ i = IndexOfRun(history, lastOp'.runId)
                      /\ AllTerminal(new))
                         => new.completedAt # 0]_vars

\* C11 witness: a run that was created pending, completed by an update, and updated
\* again at a later time, its completedAt still the earlier time
C11_Witness ==
    /\ lastOp.op = "updateMethodInHistory"
    /\ \E i \in 1..Len(history) :
          /\ history[i].runId = lastOp.runId
          /\ history[i].startedAt < history[i].completedAt
          /\ history[i].completedAt < now

\* C12: in every method record of the history whose status is not indexing_completed,
\* passageCount, contentCharsTotal and the page count are zero or absent
C12_MetricsOnlyWhenCompleted ==
    \A key \in RecordKeys(history) :
        LET rec == RecordOf(history, key[1], key[2])
        IN  rec.status # "indexing_completed"
            => /\ rec.passageCount \in {0, UndefNum}
               /\ rec.contentCharsTotal \in {0, UndefNum}
               /\ rec.pageCount \in {0, UndefNum}

\* C13: a benchmarkMethod call that returns without having thrown returns timeout
\* exactly when the MAX_POLL_ATTEMPTS-th status check still reported a pending status,
\* returns indexing_completed with the metrics when the last check reported
\* indexing_completed, and returns the failure status when it reported a failure
C13_ResultFollowsLastCheck ==
    [][(server.pc = "running" /\ server'.pc = "running")
       => \A i \in 1..Len(METHODS) :
             LET call == server.calls[i]
                 result == server'.calls[i].result
             IN  (/\ call.pc \in {"poll", "passages"}
                  /\ server'.calls[i].pc = "returned"
                  /\ server'.calls[i].error = "none")
                 => /\ result.status = "timeout"
                       <=> (/\ call.attempts = MAX_POLL_ATTEMPTS
                            /\ call.finalFile \in PendingStatuses)
                    /\ call.finalFile = "indexing_completed"
                       => /\ result.status = "indexing_completed"
                          /\ result.passageCount = RemotePassageCount(call.fileId)
                    /\ call.finalFile \in {"indexing_failed", "upload_failed"}
                       => /\ result.status = call.finalFile
                          /\ result.failedReason # UndefStr]_vars

\* C14: a remote call that throws inside a method run makes benchmarkMethod return a
\* result with status indexing_failed and the error's text as failedReason, and the
\* run that runBenchmark returns holds the result of every configured method
C14_ErrorsBecomeResults ==
    [][(server.pc = "running" /\ server'.pc \in {"running", "done"})
       => /\ \A i \in 1..Len(METHODS) :
                (server.calls[i].error = "none" /\ server'.calls[i].error # "none")
                => /\ server'.calls[i].pc = "returned"
                   /\ server'.calls[i].result.status = "indexing_failed"
                   /\ server'.calls[i].result.failedReason = server'.calls[i].error
                   /\ server'.calls[i].error
                        \in {RemoteErrors[c] : c \in DOMAIN RemoteErrors}
          /\ server'.pc = "done"
                => /\ Len(server'.results) = Len(METHODS)
                   /\ \A i \in 1..Len(METHODS) :
                         server'.results[i] = server'.calls[i].result]_vars

\* C14 witness: the run was returned although the first method's enqueue and the
\* second method's passage listing threw; the third method completed
C14_Witness ==
    /\ server.pc = "done"
    /\ server.calls[1].error = RemoteErrors.upsertFile
    /\ server.calls[2].error = RemoteErrors.listFilePassages
    /\ server.results[1].status = "indexing_failed"
    /\ server.results[3].status = "indexing_completed"

\* C15: at most one benchmarkMethod call is in flight, method i+1 is enqueued only
\* after method i returned its result, and the results stand in METHODS order
C15_OneMethodAtATime ==
    server.pc # "idle"
    => /\ Cardinality(InFlight) <= 1
       /\ \A i \in 1..(Len(METHODS) - 1) :
             server.calls[i + 1].pc # "new"
             => /\ server.calls[i].pc = "returned"
                /\ Len(server.results) >= i
       /\ \A k \in 1..Len(server.results) : server.results[k].method = METHODS[k]

\* C15 witness: the second method is polling after the first one returned
C15_Witness ==
    /\ server.pc = "running"
    /\ server.calls[1].pc = "returned"
    /\ server.calls[2].pc = "poll"
    /\ server.calls[2].attempts = 2
    /\ server.calls[3].pc = "new"

InsertOps == {"addToHistory", "createPendingEntry"}

\* the entry the last insert stored: the result handed to addToHistory, or the
\* entry createPendingEntry builds from its argument
Inserted(op) ==
    IF op.op = "addToHistory" THEN op.entry
    ELSE createPendingEntry(<<>>, op.entry)[1]

\* whether a is b with some entries left out, the order kept
RECURSIVE IsSubseq(_, _)
IsSubseq(a, b) ==
    IF a = <<>> THEN TRUE
    ELSE IF b = <<>> THEN FALSE
    ELSE IF Head(a) = Head(b) THEN IsSubseq(Tail(a), Tail(b))
    ELSE IsSubseq(a, Tail(b))

\* C17: after any operation of the store the history holds at most MAX_HISTORY_ITEMS
\* entries, and an operation that inserts into a full history drops entries from the
\* end of the list: inserting one new run drops the last entry, an import of new
\* runs drops as many entries from the end as it puts in front
C17_AtMostMaxEntries ==
    [][/\ Len(history') <= MAX_HISTORY_ITEMS
       /\ (/\ lastOp'.op \in InsertOps
           /\ Len(history) = MAX_HISTORY_ITEMS
           /\ lastOp'.runId \notin RunIdsOf(history))
              => (/\ Len(history') = MAX_HISTORY_ITEMS
                  /\ \A i \in 2..MAX_HISTORY_ITEMS : history'[i] = history[i - 1])
       /\ (/\ lastOp'.op = "importHistory"
           /\ Len(history) = MAX_HISTORY_ITEMS)
              => \E k \in 0..MAX_HISTORY_ITEMS :
                    /\ Len(history') = MAX_HISTORY_ITEMS
                    /\ \A i \in (k + 1)..MAX_HISTORY_ITEMS : history'[i] = history[i - k]
                    /\ \A i \in 1..k : history'[i].runId \notin RunIdsOf(history)]_vars

\* C17 witness: a new run was inserted into a full history; the history still holds
\* MAX_HISTORY_ITEMS entries and the oldest run is gone
C17_Witness ==
    /\ lastOp.op \in InsertOps
    /\ lastOp.runId > MAX_HISTORY_ITEMS
    /\ Len(history) = MAX_HISTORY_ITEMS
    /\ history[1].runId = lastOp.runId
    /\ history[MAX_HISTORY_ITEMS].runId = 2
    /\ 1 \notin RunIdsOf(history)

\* C18: addToHistory and createPendingEntry put the inserted run at index 0; with a
\* new runId on a full history the last entry is removed and the others follow in
\* their order; with a runId already present the old entry is removed, the others
\* follow in their order, and the length does not grow
C18_InsertedRunAtFront ==
    [][lastOp'.op \in InsertOps =>
        LET r == lastOp'.runId
            others == SelectSeq(history, LAMBDA e : e.runId # r)
        IN  /\ history' # <<>>
            /\ history'[1] = Inserted(lastOp')
            /\ (r \notin RunIdsOf(history) /\ Len(history) = MAX_HISTORY_ITEMS)
                  => Tail(history') = SubSeq(history, 1, MAX_HISTORY_ITEMS - 1)
            /\ r \in RunIdsOf(history)
                  => (/\ Tail(history') = others
                      /\ Len(history') <= Len(history)
                      /\ \A i \in 2..Len(history') : history'[i].runId # r)]_vars

\* C18 witness: the oldest run of a full history was inserted again; it moved from
\* the end to the front with its new content, and the history is as long as before
C18_Witness ==
    /\ lastOp.op = "addToHistory"
    /\ lastOp.runId = 1
    /\ Len(history) = MAX_HISTORY_ITEMS
    /\ history[1] = lastOp.entry
    /\ history[1].startedAt > 1
    /\ history[MAX_HISTORY_ITEMS].runId = 2

\* C19: no two entries of the history have the same runId, whatever operations of
\* the store were called, importHistory with a valid text that holds the same
\* runId twice included
C19_NoDuplicateRunIds ==
    \A i \in 1..Len(history) : \A j \in 1..Len(history) :
        i # j => history[i].runId # history[j].runId

\* C20: importHistory(exportHistory()) returns true and leaves a history of at most
\* MAX_HISTORY_ITEMS entries that holds every entry of the history before, with the
\* same content and in the same order
C20_ExportImportKeepsHistory ==
    [][lastOp'.op = "importExport" =>
        /\ lastOp'.ret = TRUE
        /\ IsSubseq(history, history')
        /\ Len(history') <= MAX_HISTORY_ITEMS]_vars

\* C20 witness: a full history that holds a pending run, whose records have no
\* failedReason, was exported and imported again
C20_Witness ==
    /\ lastOp.op = "importExport"
    /\ lastOp.ret = TRUE
    /\ Len(history) = MAX_HISTORY_ITEMS
    /\ \E i \in 1..Len(history) :
          /\ history[i].completedAt = 0
          /\ history[i].methods[1].failedReason = UndefStr

\* whether an entry of an imported array has a runId, an originalFile and a methods
\* array
ValidEntry(obj) ==
    /\ "runId" \in DOMAIN obj /\ obj.runId # 0
    /\ "originalFile" \in DOMAIN obj /\ obj.originalFile # UndefStr
    /\ "methods" \in DOMAIN obj

\* whether a text handed to importHistory is JSON, an array, and valid in every entry
ValidImport(json) ==
    /\ json.kind = "array"
    /\ \A i \in 1..Len(json.items) : ValidEntry(json.items[i])

\* C21: importHistory called with a text that is not JSON, not an array, or holds an
\* entry without runId, originalFile or methods array returns false and leaves the
\* history as it was: no valid entry of that text is merged
C21_InvalidImportRejected ==
    [][(lastOp'.op = "importHistory" /\ ~ValidImport(lastOp'.json))
          => (lastOp'.ret = FALSE /\ history' = history)]_vars

\* C21 witness: an array of a valid entry with a new runId and an entry without
\* methods was imported into a full history and rejected
C21_Witness ==
    /\ lastOp.op = "importHistory"
    /\ lastOp.ret = FALSE
    /\ lastOp.json.kind = "array"
    /\ \E i \in 1..Len(lastOp.json.items) :
          /\ ValidEntry(lastOp.json.items[i])
          /\ lastOp.json.items[i].runId \notin RunIdsOf(history)
    /\ Len(history) = MAX_HISTORY_ITEMS

\* C22: when the poller has observed indexing_completed for a method, the history
\* record of the method holds the status payload, and the passage list the page
\* caches for the method is the complete passage list of the file, all pages of it
C22_CachedPassagesComplete ==
    lastOp.op = "setPassages" =>
        /\ lastOp.passages = getAllPassages(lastOp.fileId, PASSAGES_LIMIT)
        /\ \A i \in 1..Len(history) : \A k \in 1..Len(history[i].methods) :
              history[i].methods[k].fileId = lastOp.fileId
                 => /\ history[i].methods[k].status = "indexing_completed"
                    /\ history[i].methods[k].passageCount
                          = RemotePassageCount(lastOp.fileId)

\* C23: the poll loop of a method does not depend on the loops of the other methods:
\* whatever the others do (stay pending, fail, lose a status request to an error,
\* time out), the watched method, while it is pending in the history of the open
\* run, has a status request in flight or a poll timer set, or the poll effect is
\* about to run and start one
C23_LoopsIndependent ==
    (page = "detail" /\ RecordOf(history, 1, Watched).status \in PendingStatuses)
        => (dirty \/ LiveCycles(loops, Watched) >= 1)

\* C23 witness: the watched method has become terminal in the history while another
\* method is still pending and has lost its poll loop to a failed status request
C23_Witness ==
    /\ page = "detail"
    /\ RecordOf(history, 1, Watched).status = "indexing_completed"
    /\ ~dirty
    /\ \E m \in Methods \ {Watched} :
          /\ RecordOf(history, 1, m).status \in PendingStatuses
          /\ LiveCycles(loops, m) = 0

\* whether every method of a history entry has status indexing_completed
AllCompleted(e) ==
    \A k \in 1..Len(e.methods) : e.methods[k].status = "indexing_completed"

\* C24: the comparison engine is invoked only for a run in which every method has
\* status indexing_completed; a run with a method that timed out or failed is
\* rejected by the page or by the route
C24_ComparisonNeedsAllCompleted ==
    \A q \in BagToSet(aiRequests) :
        q.invoked => AllCompleted(history[IndexOfRun(history, q.rid)])

\* whether a comparison is attached to run rid in the history
HasComparison(h, rid) ==
    IndexOfRun(h, rid) # 0 /\ h[IndexOfRun(h, rid)].aiComparison

\* C25: no comparison request is sent for a run while one is in flight for it or
\* after a comparison was attached to it, and the aiComparison field of a history
\* entry is written at most once
C25_ComparisonAtMostOnce ==
    [][/\ (RunAiComparison /\ aiRequests' # aiRequests)
            => (/\ ~HasComparison(history, run[1].runId)
                /\ \A q \in BagToSet(aiRequests) : q.rid # run[1].runId)
       /\ \A q \in BagToSet(aiRequests) :
            (AiResponseOf(q) /\ q.resp = "ok") => ~HasComparison(history, q.rid)]_vars


\* passages 1..k of ps as getExcerpt joins them: each followed by a blank line
RECURSIVE Concat(_, _)
Concat(ps, k) ==
    IF k = 0 THEN <<>> ELSE Concat(ps, k - 1) \o ps[k].content \o <<"\n", "\n">>

\* passage k does not push the text accumulated from the passages before it over
\* the limit
Fits(ps, k) == Len(Concat(ps, k - 1)) + Len(ps[k].content) <= EXCERPT_CHAR_LIMIT

\* passages 1..k are the whole passages up to the first one that does not fit
WholePrefix(ps, k) ==
    /\ \A j \in 1..k : Fits(ps, j)
    /\ k < Len(ps) => ~Fits(ps, k + 1)

\* C29 as stated: for any passage list, getExcerpt returns the concatenation of the
\* whole passages before the first one that would push the accumulated text over
\* 4000 characters, and nothing of that passage or a later one; the excerpt is never
\* longer than 4000 characters.
C29_ExcerptIsWholePassagePrefix ==
    (lastOp.op = "getExcerpt" /\ ~remote.threw)
        => /\ \E k \in 0..Len(remote.passages) :
                 /\ WholePrefix(remote.passages, k)
                 /\ lastOp.ret = trim(Concat(remote.passages, k))
           /\ Len(lastOp.ret) <= EXCERPT_CHAR_LIMIT

\* C29 amended: the excerpt is that concatenation with the white space at its ends
\* removed, or, when nothing is left of it, the text '[No content extracted]'; it is
\* never longer than 4000 characters.
C29_ExcerptIsPrefixOrPlaceholder ==
    (lastOp.op = "getExcerpt" /\ ~remote.threw)
        => /\ \E k \in 0..Len(remote.passages) :
                 /\ WholePrefix(remote.passages, k)
                 /\ lastOp.ret = IF trim(Concat(remote.passages, k)) = <<>>
                                 THEN NoContentExtracted
                                 ELSE trim(Concat(remote.passages, k))
           /\ Len(lastOp.ret) <= EXCERPT_CHAR_LIMIT

\* an excerpt of exactly 4000 characters that leaves out a passage that did not fit
\* and a shorter one after it
C29_Witness ==
    /\ lastOp.op = "getExcerpt"
    /\ ~remote.threw
    /\ Len(remote.passages) = 3
    /\ WholePrefix(remote.passages, 1)
    /\ Len(remote.passages[3].content) = 1
    /\ Len(lastOp.ret) = EXCERPT_CHAR_LIMIT

\* the last request was one of route, and lastOp is its response
Answered(route) == "route" \in DOMAIN lastOp /\ lastOp.route = route

\* the remote calls of the last request that enqueue or upload a file
Uploads == {i \in 1..Len(lastOp.calls) : lastOp.calls[i].op \in {"upsertFile", "upload"}}

\* a credential is missing from the server's environment
CredentialMissing ==
    Falsy(server.env.BOTPRESS_TOKEN) \/ Falsy(server.env.BOTPRESS_BOT_ID)

FailsValidation ==
    \/ /\ Answered("start")
       /\ \/ lastOp.req.request.method \notin {"basic", "vision", "landing-ai"}
          \/ lastOp.req.request.body = "no file"
    \/ /\ Answered("benchmark")
       /\ lastOp.req.request.body = "no file"
    \/ /\ Answered("ai-compare")
       /\ lastOp.req.request.body = "json"
       /\ \/ Falsy(lastOp.req.request.runId)
          \/ \E k \in {"basic", "vision", "landingAi"} :
                \/ k \notin DOMAIN lastOp.req.request.fileIds
                \/ lastOp.req.request.fileIds[k] = ""
    \/ /\ Answered("search")
       /\ Falsy(lastOp.req.request.q) \/ Falsy(lastOp.req.request.runId)

C28_MissingCredentialsBlock ==
    /\ Answered("health")
          => (lastOp.body.status = "configured" <=> ~CredentialMissing)
    /\ CredentialMissing
          => /\ ~server.clientInstance
             /\ (Answered("benchmark") \/ Answered("start"))
                   => /\ lastOp.status \in {400, 500}
                      /\ "error" \in DOMAIN lastOp.body
                      /\ Uploads = {}

\* a benchmark request with a file, on a server without a token, while the service
\* would have completed every method
C28_Witness ==
    /\ Answered("benchmark")
    /\ lastOp.req.request.body = "file"
    /\ \A i \in 1..NumMethods : lastOp.req.outcome[i].result.status = "indexing_completed"
    /\ server.env.BOTPRESS_TOKEN = UndefStr
    /\ server.env.BOTPRESS_BOT_ID = "set"
    /\ lastOp.status = 500
    /\ lastOp.body.error = MissingCredentials

\* the last request was an ai-compare request that reached runAiComparison
ComparisonRan == Answered("ai-compare") /\ lastOp.core = <<"runAiComparison">>

\* the extraction calls of the last request
Extractions == {i \in 1..Len(lastOp.calls) : lastOp.calls[i].op = "extract"}

\* the extraction was called once, with the excerpt of every file, the placeholder
\* standing for each file whose passages could not be fetched
ExtractedWithPlaceholders ==
    /\ Cardinality(Extractions) = 1
    /\ \A i \in Extractions :
          /\ DOMAIN lastOp.calls[i].arg = {"basic", "vision", "landingAi"}
          /\ \A k \in {"basic", "vision", "landingAi"} :
                lastOp.req.outcome.fetch[k].threw
                    => lastOp.calls[i].arg[k] = FailedToFetchContent

\* C30 as stated: in runAiComparison an excerpt that could not be fetched is replaced
\* by a placeholder and the extraction is still called with all three excerpts; only
\* a failure of the extraction makes runAiComparison fail, and the route answers 500.
C30_OnlyExtractionFails ==
    ComparisonRan
        => /\ ExtractedWithPlaceholders
           /\ lastOp.status = IF lastOp.req.outcome.extract = "throws" THEN 500 ELSE 200

\* C30 amended: runAiComparison fails before any fetch when the client cannot be
\* constructed for a missing credential; otherwise an excerpt that could not be
\* fetched is replaced by a placeholder, the extraction is called with all three
\* excerpts, and only its failure makes runAiComparison fail; the route answers
\* either failure with 500.
C30_ClientOrExtractionFails ==
    ComparisonRan
        => IF CredentialMissing
           THEN lastOp.status = 500 /\ lastOp.calls = <<>>
           ELSE /\ ExtractedWithPlaceholders
                /\ lastOp.status = IF lastOp.req.outcome.extract = "throws"
                                   THEN 500 ELSE 200

\* a comparison that was answered although the passages of one file could not be
\* fetched
C30_Witness ==
    /\ ComparisonRan
    /\ lastOp.status = 200
    /\ lastOp.req.outcome.fetch["vision"].threw
    /\ ~lastOp.req.outcome.fetch["basic"].threw
    /\ ExtractedWithPlaceholders

\* the start time the poll cycle of timer l reads: the ref of the view that
\* started it
PollStartOf(l) == IF l.live THEN pollStartTimesRef[l.m] ELSE l.start

\* the cycle that timer l starts begins after the method's deadline
PastDeadline(l) == PollStartOf(l) # 0 /\ now - PollStartOf(l) > MAX_POLL_TIME_MS

\* C31: a poll cycle that starts after the method's deadline writes timeout to the
\* status the page of the run shows and to the history, sends no status request and
\* schedules no timer.
C31_TimeoutCycleStops ==
    [][\A l \in BagToSet(loops) :
          (TimerFireOf(l) /\ PastDeadline(l))
              => /\ (page = "detail" /\ runId = l.rid)
                       => methodStatuses'[l.m] = "timeout"
                 /\ RecordOf(history', l.rid, l.m).status = "timeout"
                 /\ loops' = RemoveFrom(loops, l)]_vars

C33_ReasonAndMetricsByStatus ==
    lastOp.op = "getFileStatus"
        => LET ret == lastOp.ret
           IN  /\ ret.status = remote.status
               /\ ret.failedReason # UndefStr
                     <=> remote.status \in {"indexing_failed", "upload_failed"}
               /\ ret.failedReason # UndefStr
                     => ret.failedReason =
                           IF remote.failedStatusReason \in {UndefStr, ""}
                           THEN "Unknown error" ELSE remote.failedStatusReason
               /\ \A metric \in {ret.passageCount, ret.contentCharsTotal, ret.pageCount} :
                     metric # UndefNum <=> remote.status = "indexing_completed"

\* a failed upload for which the service gave no reason
C33_Witness ==
    /\ lastOp.op = "getFileStatus"
    /\ remote.status = "upload_failed"
    /\ remote.failedStatusReason = UndefStr
    /\ lastOp.ret.failedReason = "Unknown error"

\* the ids of the passages of pages 1..k, in order
RECURSIVE IdsOfPages(_, _)
IdsOfPages(pages, k) ==
    IF k = 0 THEN <<>>
    ELSE IdsOfPages(pages, k - 1)
            \o [i \in 1..Len(pages[k].passages) |-> pages[k].passages[i].id]

\* C34: getAllPassages asks for the first page without a token and for every further
\* page with the token of the page before; it has returned exactly when the last
\* page answered carried no token, every page before it carried one, and what it
\* returns (collects, while it runs) are the passages of all pages answered, in order.
C34_AllPagesInOrder ==
    LET pages == server.pages
        n == Len(server.pages)
    IN  /\ Len(server.requests) = n
        /\ \A k \in 1..n :
              server.requests[k] = IF k = 1 THEN UndefStr ELSE pages[k - 1].nextToken
        /\ \A k \in 1..(n - 1) : pages[k].nextToken # UndefStr
        /\ server.pc = "returned" <=> (n >= 1 /\ pages[n].nextToken = UndefStr)
        /\ [i \in 1..Len(server.allPassages) |-> server.allPassages[i].id]
              = IdsOfPages(pages, n)

\* the call returned after three pages, the first and the last with passages
C34_Witness ==
    /\ server.pc = "returned"
    /\ Len(server.pages) = 3
    /\ Len(server.pages[1].passages) = 2
    /\ Len(server.pages[3].passages) = 1
    /\ Len(server.allPassages) >= 3

\* the positions in an imported array of the entries whose run is not stored in h
NewPositions(items, h) ==
    {i \in 1..Len(items) : \A j \in 1..Len(h) : h[j].runId # items[i].runId}

\* the k-th smallest member of a set of positions
RECURSIVE KthOf(_, _)
KthOf(S, k) ==
    LET least == CHOOSE x \in S : \A y \in S : x <= y
    IN  IF k = 1 THEN least ELSE KthOf(S \ {least}, k - 1)

\* C35: a valid import returns true and leaves the history equal to the imported
\* entries whose runId was not stored, in imported order, followed by the stored
\* entries as they were and in their order, cut to the first MAX_HISTORY_ITEMS; no
\* stored entry is replaced or altered by an imported entry of the same runId.
C35_ImportPrependsNewEntries ==
    [][(lastOp'.op = "importHistory" /\ ValidImport(lastOp'.json))
          => LET items == lastOp'.json.items
                 new == NewPositions(items, history)
                 k == Cardinality(new)
                 total == k + Len(history)
             IN  /\ lastOp'.ret = TRUE
                 /\ Len(history') = IF total < 25 THEN total ELSE 25
                 /\ \A j \in 1..Len(history') :
                       history'[j] = IF j <= k
                                     THEN ParseEntry(items[KthOf(new, j)])
                                     ELSE history[j - k]]_vars

\* an import brought a new run and another version of a stored run: the new run
\* stands first, the stored run after it
C35_Witness ==
    /\ lastOp.op = "importHistory"
    /\ lastOp.ret = TRUE
    /\ Len(lastOp.json.items) = 2
    /\ lastOp.json.items[1].runId = 1
    /\ Len(history) = 2
    /\ history[1].runId = lastOp.json.items[2].runId
    /\ history[2].runId = 1
    /\ history[2].startedAt # lastOp.json.items[1].startedAt

\* the positions of the entries of h with run id r, and of the records of method m
\* in a list of method records
EntriesOf(h, r) == {i \in 1..Len(h) : h[i].runId = r}
RecordsOf(ms, m) == {k \in 1..Len(ms) : ms[k].method = m}

\* C36: updateMethodInHistory(runId, m, u) changes only the record of method m of
\* run runId, where the fields of u overwrite and the other fields are kept, and
\* possibly the run's completedAt; every other entry, every other method record and
\* field of the run, and the order and number of entries stay; when the run or the
\* method is not stored, the history stays as it is.
C36_UpdateTouchesOneRecord ==
    [][lastOp'.op = "updateMethodInHistory"
          => LET r == lastOp'.runId
                 m == lastOp'.method
                 u == lastOp'.update
             IN  IF \/ EntriesOf(history, r) = {}
                    \/ \A i \in EntriesOf(history, r) : RecordsOf(history[i].methods, m) = {}
                 THEN history' = history
                 ELSE /\ Len(history') = Len(history)
                      /\ \E i \in EntriesOf(history, r) :
                            \E k \in RecordsOf(history[i].methods, m) :
                               /\ \A j \in (1..Len(history)) \ {i} : history'[j] = history[j]
                               /\ DOMAIN history'[i] = DOMAIN history[i]
                               /\ \A f \in (DOMAIN history[i]) \ {"methods", "completedAt"} :
                                     history'[i][f] = history[i][f]
                               /\ history'[i].completedAt \in {history[i].completedAt, now'}
                               /\ Len(history'[i].methods) = Len(history[i].methods)
                               /\ \A n \in (1..Len(history[i].methods)) \ {k} :
                                     history'[i].methods[n] = history[i].methods[n]
                               /\ DOMAIN history'[i].methods[k]
                                     = (DOMAIN history[i].methods[k]) \cup (DOMAIN u)
                               /\ \A f \in DOMAIN history'[i].methods[k] :
                                     history'[i].methods[k][f]
                                        = IF f \in DOMAIN u THEN u[f]
                                          ELSE history[i].methods[k][f]]_vars

\* the oldest run of a full history had one of its methods set to timeout; its other
\* method is as it was
C36_Witness ==
    /\ lastOp.op = "updateMethodInHistory"
    /\ lastOp.runId = 1
    /\ lastOp.method = "vision"
    /\ Len(history) = 25
    /\ history[25].runId = 1
    /\ history[25].methods[2].status = "timeout"
    /\ history[25].methods[1].status = "indexing_completed"

\* C38: updateHistoryWithAiComparison(runId, c) changes only the aiComparison field
\* of the entry with that run id; the method records, completedAt, every other
\* entry and the order of the entries stay; when no entry has the run id the
\* persisted history stays as it is.
C38_AiComparisonTouchesOneField ==
    [][lastOp'.op = "updateHistoryWithAiComparison"
          => LET r == lastOp'.runId
             IN  IF EntriesOf(history, r) = {}
                 THEN history' = history
                 ELSE /\ Len(history') = Len(history)
                      /\ \E i \in EntriesOf(history, r) :
                            /\ \A j \in (1..Len(history)) \ {i} : history'[j] = history[j]
                            /\ DOMAIN history'[i] = DOMAIN history[i]
                            /\ \A f \in (DOMAIN history[i]) \ {"aiComparison"} :
                                  history'[i][f] = history[i][f]
                            /\ history'[i].aiComparison = TRUE]_vars

\* the oldest run of a full history received its comparison; its neighbour has none
C38_Witness ==
    /\ lastOp.op = "updateHistoryWithAiComparison"
    /\ lastOp.runId = 1
    /\ Len(history) = 25
    /\ history[25].runId = 1
    /\ history[25].aiComparison = TRUE
    /\ history[24].aiComparison = FALSE
    /\ history[25].methods[1].status = "indexing_completed"

\* the terminal update the step of cycle l writes, as the pair <<written, update>>:
\* a response with a terminal status, or a timer that fires past the deadline
TerminalUpdateOf(l) ==
    IF PollResponseOf(l) /\ getFileStatus(l.fid, l.resp).status \in TerminalStatuses
    THEN <<TRUE, FinishedUpdate(getFileStatus(l.fid, l.resp))>>
    ELSE IF TimerFireOf(l) /\ PastDeadline(l)
         THEN <<TRUE, TimeoutUpdate>>
         ELSE <<FALSE, TimeoutUpdate>>

\* the record of method k of run r as createPendingEntry stored it
PendingRecords(r, k) ==
    {createPendingEntry(<<>>, e)[1].methods[k] : e \in PendingEntries(r)}

\* C37: a terminal update of one method of a run, written by that method's poll
\* cycle, is stored with its fields and leaves the records of the run's other
\* methods as they are, so the update that came first is still there after the
\* second; and a finished method's record is the record the run was created with,
\* overwritten by the update of its own final status, whatever was stored for the
\* other methods before or after it, so the records are the same in either order.
C37_BothUpdatesKept ==
    /\ [][\A l \in BagToSet(loops) :
             TerminalUpdateOf(l)[1]
                => /\ \A f \in DOMAIN TerminalUpdateOf(l)[2] :
                         RecordOf(history', l.rid, l.m)[f] = TerminalUpdateOf(l)[2][f]
                   /\ \A m2 \in Methods \ {l.m} :
                         RecordOf(history', l.rid, m2) = RecordOf(history, l.rid, m2)]_vars
    /\ [](\A i \in 1..Len(history) : \A k \in 1..Len(history[i].methods) :
             LET rec == history[i].methods[k]
             IN  rec.status \in TerminalStatuses \ {"timeout"}
                    => \E p \in PendingRecords(history[i].runId, k) :
                          rec = Spread(p, FinishedUpdate(getFileStatus(rec.fileId, rec.status))))

\* both methods of the run had their terminal update stored, one finished and one
\* failed, and the run was stamped complete
C37_Witness ==
    /\ Len(history) = 1
    /\ {history[1].methods[k].status : k \in 1..Len(history[1].methods)}
          = {"indexing_completed", "indexing_failed"}
    /\ history[1].completedAt # 0
=============================================================================
